---- MODULE Spec2Model ----
(***************************************************************************)
(* Model of the Base-chain launch tracker: the launch store (SQLite        *)
(* tables launches / alerts), the alert engine (AlertChecker), the alert   *)
(* condition evaluator and the discovery aggregator (fetchBasePairs).      *)
(*                                                                         *)
(* Time is counted in minutes (1 unit = 60000 ms of Date.now()).           *)
(* Market values are integers; the evaluator's sample values are tenths    *)
(* (1009 stands for 100.9).                                                *)
(***************************************************************************)
EXTENDS Integers, Sequences, FiniteSets, TLC

VARIABLES
  now,            \* Date.now(), in minutes
  launches,       \* table launches: sequence of rows in rowid order
  alerts,         \* table alerts: set of rows
  nextAlertId,    \* AUTOINCREMENT counter of alerts.id
  watchlist,      \* table watchlist: set of rows [userId, tokenAddress]
  lastOp,         \* history: the last write to launches: [kind, batch, repeat]
  checkInterval,  \* AlertChecker.checkInterval: a timer handle, or NoTimer
  timers,         \* live setInterval timers of the alert checker (handles)
  nextTimer,      \* next timer handle
  runs,           \* in-flight checkAlerts() invocations, each suspended at an await
  sent,           \* history: per alert id, number of notifications delivered (user.send resolved)
  matched,        \* history: ids of alerts whose condition matched in some tick
  lastDelivery,   \* history: the last delivery attempt that returned: [id, outcome]
  evalIn,         \* evaluator harness: the (alert, launch) pair under evaluation
  evalOut,        \* evaluator harness: result of evaluateAlert, or "none"
  disc,           \* one fetchBasePairs() run: [pc, term, allPairs, seenAddresses, pairs]
                  \* and the history of the run: strategies that ran, that failed
  gate,           \* the request gate of the DexScreener client and its callers
  retry,          \* one retryWithBackoff() call
  filt,           \* filter harness: the pairs given to filterValidPairs and its output
  query,          \* the last read of the launches table and the last prune
  poller,         \* TokenTracker: isPolling, pollInterval, timers, calls in flight
  cmd,            \* the last command handled and its reply
  check,          \* one checkAlerts() at a time, alert by alert, with its log
  tick,           \* one poll() at a time, with the steps it has taken
  multi           \* one fetchMultipleTokens() call: batches, requests, results

vars == <<now, launches, alerts, nextAlertId, watchlist, lastOp, checkInterval, timers,
          nextTimer, runs, sent, matched, lastDelivery, evalIn, evalOut, disc,
          gate, retry, filt, query, poller, cmd, check, tick, multi>>

harnessVars == <<cmd, check, tick, multi>>
serviceVars == <<gate, retry, filt, query, poller, harnessVars>>
storeVars == <<launches, lastOp>>
alertTableVars == <<alerts, nextAlertId, watchlist>>
engineVars == <<checkInterval, timers, nextTimer, runs, sent, matched, lastDelivery>>
evalVars == <<evalIn, evalOut>>

(***************************************************************************)
(* Bounds of the model                                                     *)
(***************************************************************************)
MaxClock == 1      \* the clock takes MaxClock steps of ClockStep
MaxAlerts == 1     \* alerts ever created
MaxRuns == 2       \* checkAlerts() invocations in flight at once
MaxStarts == 2     \* startChecking() calls
MaxBatch == 2      \* launches in one upsertLaunches batch
MaxPairs == 2      \* pairs in one response of the DexScreener API
MaxTerms == 2      \* search terms of SEARCH_TERMS that are modelled
MaxCallers == 2    \* callers of the DexScreener client at once
MaxGateTicks == 8  \* steps of the gate clock
MaxPollStarts == 3 \* startPolling() calls that get past the isPolling test
MaxTicks == 2      \* poll ticks in flight at once
MaxCommands == 2   \* alerts created by alert commands
MaxBatchAlerts == 2 \* active alerts in the batch of one checkAlerts()
MaxChecks == 2     \* checkAlerts() ticks, one after the other
MaxPolls == 2      \* poll() ticks, one after the other
MaxTokens == 61    \* token addresses given to fetchMultipleTokens

(***************************************************************************)
(* Time                                                                    *)
(***************************************************************************)
Hour == 60
TimeBase == 10 * 24 * Hour
ClockStep == 47 * Hour
ClockValues == {TimeBase + k * ClockStep : k \in 0..MaxClock}

Null == "null"
NoTimer == 0

(***************************************************************************)
(* Addresses: String.prototype.toLowerCase on the sample addresses          *)
(***************************************************************************)
ToLowerCase(s) ==
  CASE s = "0xA" -> "0xa"
    [] s = "0xB" -> "0xb"
    [] s = "0xP1" -> "0xp1"
    [] s = "0xP2" -> "0xp2"
    [] s = "0xT3" -> "0xt3"
    [] OTHER -> s

(***************************************************************************)
(* TokenLaunch rows                                                        *)
(***************************************************************************)
IdentityFields(r) ==
  <<r.pairAddress, r.tokenAddress, r.name, r.symbol, r.dexId,
    r.dexscreenerUrl, r.pairCreatedAt>>

MutableFields(r) ==
  <<r.priceUsd, r.marketCap, r.volume24h, r.liquidityUsd,
    r.priceChange24h, r.lastUpdated>>

\* A sample launch: identity variant idv, market variant mkt, observed at t.
MkLaunch(pa, idv, mkt, t) ==
  [pairAddress    |-> pa,
   tokenAddress   |-> IF idv = 1 THEN "0xa" ELSE "0xb",
   name           |-> IF idv = 1 THEN "Alpha" ELSE "Beta",
   symbol         |-> IF idv = 1 THEN "ALP" ELSE "BET",
   dexId          |-> IF idv = 1 THEN "uniswap" ELSE "aerodrome",
   dexscreenerUrl |-> IF idv = 1 THEN "url1" ELSE "url2",
   pairCreatedAt  |-> TimeBase - idv * Hour,
   priceUsd       |-> 2 * (mkt - 1),
   marketCap      |-> 1000 * mkt,
   volume24h      |-> 10 * mkt,
   liquidityUsd   |-> 100 * mkt,
   priceChange24h |-> 5 * mkt,
   lastUpdated    |-> t]

\* A launch whose token_address is NULL: the INSERT violates NOT NULL and throws.
BadLaunch(pa, t) == [MkLaunch(pa, 1, 2, t) EXCEPT !.tokenAddress = Null]

\* launches offered to upsertLaunch in the store's specification
StoreLaunchInputs(t) ==
  {MkLaunch("0xp1", idv, mkt, t) : idv \in 1..2, mkt \in 1..2}
    \cup {MkLaunch("0xp2", 2, mkt, t) : mkt \in 1..2}
    \cup {BadLaunch("0xp1", t)}

\* launches offered to the batches of upsertLaunches
BatchLaunchInputs(t) ==
  {MkLaunch("0xp1", 1, 2, t), MkLaunch("0xp1", 2, 1, t), MkLaunch("0xp2", 2, 1, t),
   BadLaunch("0xp2", t)}

RECURSIVE SeqsUpTo(_, _)
SeqsUpTo(S, n) ==
  IF n = 0 THEN {<<>>}
  ELSE LET shorter == SeqsUpTo(S, n - 1)
       IN shorter \cup {Append(q, x) : q \in {p \in shorter : Len(p) = n - 1}, x \in S}

(***************************************************************************)
(* LaunchStore: launches table                                             *)
(***************************************************************************)
RowsOf(T, pa) == {i \in 1..Len(T) : T[i].pairAddress = pa}

\* stmt.run(launch) throws (NOT NULL constraint on token_address)
UpsertThrows(l) == l.tokenAddress = Null

\* mutant: INSERT OR REPLACE, the whole row is overwritten on conflict
UpsertLaunch_replace(T, l) ==
  IF RowsOf(T, l.pairAddress) = {} THEN Append(T, l)
  ELSE [i \in 1..Len(T) |-> IF T[i].pairAddress = l.pairAddress THEN l ELSE T[i]]

\* mutant: plain INSERT into a table without the primary key
UpsertLaunch_append(T, l) == Append(T, l)

\* INSERT ... ON CONFLICT(pair_address) DO UPDATE SET the six market columns
UpsertLaunch(T, l) ==
  IF RowsOf(T, l.pairAddress) = {} THEN Append(T, l)
  ELSE [i \in 1..Len(T) |->
          IF T[i].pairAddress = l.pairAddress
          THEN [T[i] EXCEPT !.priceUsd = l.priceUsd,
                            !.marketCap = l.marketCap,
                            !.volume24h = l.volume24h,
                            !.liquidityUsd = l.liquidityUsd,
                            !.priceChange24h = l.priceChange24h,
                            !.lastUpdated = l.lastUpdated]
          ELSE T[i]]

\* the loop inside the transaction function: stops at the first upsert that throws
RECURSIVE ApplyUpserts(_, _)
ApplyUpserts(T, items) ==
  IF items = <<>> THEN [ok |-> TRUE, table |-> T]
  ELSE IF UpsertThrows(Head(items)) THEN [ok |-> FALSE, table |-> T]
  ELSE ApplyUpserts(UpsertLaunch(T, Head(items)), Tail(items))

\* mutant: the loop without db.transaction, rows written before the throw stay
UpsertLaunches_noTransaction(T, items) == ApplyUpserts(T, items).table

\* db.transaction(...): commit when the loop returns, roll back when it throws
UpsertLaunches(T, items) ==
  LET r == ApplyUpserts(T, items)
  IN IF r.ok THEN r.table ELSE T

UpsertLaunchesThrows(T, items) == ~ApplyUpserts(T, items).ok

\* mutant: DELETE FROM launches WHERE last_updated < cutoff
PruneOldLaunches_lastUpdated(T, maxAgeHours, t) ==
  SelectSeq(T, LAMBDA r : ~(r.lastUpdated < t - maxAgeHours * Hour))

\* DELETE FROM launches WHERE pair_created_at < cutoff
PruneOldLaunches(T, maxAgeHours, t) ==
  SelectSeq(T, LAMBDA r : ~(r.pairCreatedAt < t - maxAgeHours * Hour))

\* mutant: LIMIT 1 without the ORDER BY: the first row of the token
GetLaunchByToken_firstPool(T, tokenAddress) ==
  LET rows == {i \in 1..Len(T) : T[i].tokenAddress = ToLowerCase(tokenAddress)}
  IN IF rows = {} THEN <<>>
     ELSE <<T[CHOOSE i \in rows : \A j \in rows : i <= j]>>

\* ORDER BY volume_24h DESC LIMIT 1 among the rows of the (lower-cased) token;
\* the result is <<row>>, or <<>> for undefined
GetLaunchByToken(T, tokenAddress) ==
  LET rows == {i \in 1..Len(T) : T[i].tokenAddress = ToLowerCase(tokenAddress)}
      best == {i \in rows : \A j \in rows : T[j].volume24h <= T[i].volume24h}
  IN IF rows = {} THEN <<>>
     ELSE <<T[CHOOSE i \in best : \A j \in best : i <= j]>>

(***************************************************************************)
(* LaunchStore: alerts table                                               *)
(***************************************************************************)
Abs(x) == IF x < 0 THEN -x ELSE x

CreateAlert(A, id, userId, tokenAddress, conditionType, operator, threshold, t) ==
  A \cup {[id            |-> id,
           userId        |-> userId,
           tokenAddress  |-> ToLowerCase(tokenAddress),
           conditionType |-> conditionType,
           operator      |-> operator,
           threshold     |-> threshold,
           triggered     |-> FALSE,
           createdAt     |-> t]}

\* mutant: DELETE FROM alerts WHERE id = ?
DeleteAlert_anyOwner(A, alertId, userId) == {a \in A : a.id # alertId}

\* DELETE FROM alerts WHERE id = ? AND user_id = ?
DeleteAlert(A, alertId, userId) ==
  {a \in A : ~(a.id = alertId /\ a.userId = userId)}

\* mutant: the UPDATE matches no row
MarkAlertTriggered_noRow(A, alertId) == A

\* mutant: UPDATE alerts SET triggered = NOT triggered WHERE id = ?
MarkAlertTriggered_toggle(A, alertId) ==
  {IF a.id = alertId THEN [a EXCEPT !.triggered = ~a.triggered] ELSE a : a \in A}

\* UPDATE alerts SET triggered = 1 WHERE id = ?
MarkAlertTriggered(A, alertId) ==
  {IF a.id = alertId THEN [a EXCEPT !.triggered = TRUE] ELSE a : a \in A}

RECURSIVE SortById(_)
SortById(S) ==
  IF S = {} THEN <<>>
  ELSE LET m == CHOOSE a \in S : \A b \in S : a.id <= b.id
       IN <<m>> \o SortById(S \ {m})

\* SELECT ... FROM alerts WHERE triggered = 0 (rows come in rowid order)
GetActiveAlerts(A) == SortById({a \in A : ~a.triggered})

(***************************************************************************)
(* AlertChecker.evaluateAlert                                              *)
(***************************************************************************)
\* mutant: the tolerance test without Math.abs
EvaluateAlert_noAbs(alert, launch) ==
  LET currentValue ==
        CASE alert.conditionType = "price" -> launch.priceUsd
          [] alert.conditionType = "volume" -> launch.volume24h
          [] alert.conditionType = "mcap" -> launch.marketCap
          [] OTHER -> 0
  IN IF alert.conditionType \notin {"price", "volume", "mcap"} THEN FALSE
     ELSE CASE alert.operator = ">" -> currentValue > alert.threshold
            [] alert.operator = "<" -> currentValue < alert.threshold
            [] alert.operator = "=" ->
                 100 * (currentValue - alert.threshold) <= alert.threshold
            [] OTHER -> FALSE

\* mutant: '>' and '<' compared with >= and <=
EvaluateAlert_inclusive(alert, launch) ==
  LET currentValue ==
        CASE alert.conditionType = "price" -> launch.priceUsd
          [] alert.conditionType = "volume" -> launch.volume24h
          [] alert.conditionType = "mcap" -> launch.marketCap
          [] OTHER -> 0
  IN IF alert.conditionType \notin {"price", "volume", "mcap"} THEN FALSE
     ELSE CASE alert.operator = ">" -> currentValue >= alert.threshold
            [] alert.operator = "<" -> currentValue <= alert.threshold
            [] alert.operator = "=" ->
                 100 * Abs(currentValue - alert.threshold) <= alert.threshold
            [] OTHER -> FALSE

\* tolerance = threshold * 0.01; both sides of the comparison are taken times 100
EvaluateAlert(alert, launch) ==
  LET currentValue ==
        CASE alert.conditionType = "price" -> launch.priceUsd
          [] alert.conditionType = "volume" -> launch.volume24h
          [] alert.conditionType = "mcap" -> launch.marketCap
          [] OTHER -> 0
  IN IF alert.conditionType \notin {"price", "volume", "mcap"} THEN FALSE
     ELSE CASE alert.operator = ">" -> currentValue > alert.threshold
            [] alert.operator = "<" -> currentValue < alert.threshold
            [] alert.operator = "=" ->
                 100 * Abs(currentValue - alert.threshold) <= alert.threshold
            [] OTHER -> FALSE

(***************************************************************************)
(* AlertChecker: checkAlerts / triggerAlert                                *)
(*                                                                         *)
(* A run is one invocation of checkAlerts().  JavaScript runs a handler    *)
(* to its next await without interleaving, so a run is observed only       *)
(* while suspended: at "fetch" (await users.fetch) or at "send"            *)
(* (await user.send), for the alert snap[i] of its snapshot.               *)
(***************************************************************************)
RunIds == 1..MaxRuns
AlertIds == 1..MaxAlerts
\* the delivery counter saturates at 2 ("more than once")
Saturating(n) == IF n < 2 THEN n + 1 ELSE n

RunIdle == [pc |-> "idle", snap |-> <<>>, i |-> 0]

Users == {"u1"}

\* conditions offered to createAlert in the engine's specification
AlertConditions ==
  {[conditionType |-> "price", operator |-> ">", threshold |-> 1]}

\* launches a poll tick offers in the engine's specification
EngineLaunchInputs(t) == {MkLaunch("0xp1", 1, mkt, t) : mkt \in 1..2}

\* for (const alert of activeAlerts): index of the first alert from i on whose
\* token has a stored launch and whose condition matches; Len(snap) + 1 if none
RECURSIVE NextMatch(_, _, _)
NextMatch(snap, i, T) ==
  IF i > Len(snap) THEN i
  ELSE LET launch == GetLaunchByToken(T, snap[i].tokenAddress)
       IN IF Len(launch) = 0 THEN NextMatch(snap, i + 1, T)
          ELSE IF EvaluateAlert(snap[i], launch[1]) THEN i
          ELSE NextMatch(snap, i + 1, T)

\* the loop of checkAlerts from index i up to its next await (or its end)
CheckAlertsFrom(snap, i, T) ==
  LET j == NextMatch(snap, i, T)
  IN IF j > Len(snap) THEN RunIdle
     ELSE [pc |-> "fetch", snap |-> snap, i |-> j]

\* ids a run adds to the history of matched alerts when it suspends
MatchedBy(run) == IF run.pc = "idle" THEN {} ELSE {run.snap[run.i].id}

\* mutant: triggerAlert rethrows every failure
TriggerAlertThrows_all(outcome) == outcome # "ok"

\* triggerAlert's try/catch swallows every failure: it never throws
TriggerAlertThrows(outcome) == FALSE

\* the suspended runs kept in the first slots, in their order of arrival
Compact(R) ==
  LET active == SelectSeq([k \in 1..MaxRuns |-> R[k]], LAMBDA x : x.pc # "idle")
  IN [k \in RunIds |-> IF k <= Len(active) THEN active[k] ELSE RunIdle]

FreeRun == CHOOSE r \in RunIds : runs[r].pc = "idle" /\ \A q \in RunIds : runs[q].pc = "idle" => r <= q

\* checkAlerts() called: getActiveAlerts, then the loop to its first await
BeginCheckAlerts ==
  /\ \E r \in RunIds : runs[r].pc = "idle"
  /\ LET run == CheckAlertsFrom(GetActiveAlerts(alerts), 1, launches)
     IN /\ runs' = [runs EXCEPT ![FreeRun] = run]
        /\ matched' = matched \cup MatchedBy(run)

\* triggerAlert returned (or threw) for alert snap[i] of run r with `outcome`:
\* markAlertTriggered unless it threw, then the loop goes on
FinishTrigger(r, outcome) ==
  LET run == runs[r]
      id == run.snap[run.i].id
      next == CheckAlertsFrom(run.snap, run.i + 1, launches)
  IN /\ alerts' = IF TriggerAlertThrows(outcome) THEN alerts
                  ELSE MarkAlertTriggered(alerts, id)
     /\ lastDelivery' = [id |-> id, outcome |-> outcome]
     /\ runs' = Compact([runs EXCEPT ![r] = next])
     /\ matched' = matched \cup MatchedBy(next)

StartChecking ==
  /\ nextTimer <= MaxStarts
  /\ BeginCheckAlerts
  /\ timers' = timers \cup {nextTimer}
  /\ checkInterval' = nextTimer
  /\ nextTimer' = nextTimer + 1
  /\ UNCHANGED <<now, launches, lastOp, alerts, nextAlertId, watchlist, sent, lastDelivery>>
  /\ UNCHANGED <<evalIn, evalOut, disc, serviceVars>>

StopChecking ==
  /\ checkInterval # NoTimer
  /\ timers' = timers \ {checkInterval}
  /\ checkInterval' = NoTimer
  /\ UNCHANGED <<now, launches, lastOp, alerts, nextAlertId, watchlist, nextTimer, runs,
                 sent, matched, lastDelivery>>
  /\ UNCHANGED <<evalIn, evalOut, disc, serviceVars>>

\* a setInterval callback of the alert checker fires
AlertTimerFire ==
  /\ timers # {}
  /\ BeginCheckAlerts
  /\ UNCHANGED <<now, launches, lastOp, alerts, nextAlertId, watchlist, checkInterval,
                 timers, nextTimer, sent, lastDelivery>>
  /\ UNCHANGED <<evalIn, evalOut, disc, serviceVars>>

\* await this.discordClient.users.fetch(alert.userId) settles
UsersFetchSettles ==
  \E r \in RunIds, res \in {"user", "nouser", "fetchfail"} :
    /\ runs[r].pc = "fetch"
    /\ IF res = "user"
       THEN /\ runs' = [runs EXCEPT ![r].pc = "send"]
            /\ UNCHANGED <<alerts, matched, lastDelivery>>
       ELSE FinishTrigger(r, res)
    /\ UNCHANGED <<now, launches, lastOp, nextAlertId, watchlist, checkInterval, timers,
                   nextTimer, sent>>
    /\ UNCHANGED <<evalIn, evalOut, disc, serviceVars>>

\* await user.send(message) settles: delivered, DMs closed (50007), other error
UserSendSettles ==
  \E r \in RunIds, res \in {"ok", "unreachable", "error"} :
    /\ runs[r].pc = "send"
    /\ LET id == runs[r].snap[runs[r].i].id
       IN sent' = IF res = "ok"
                  THEN [sent EXCEPT ![id] = Saturating(@)] ELSE sent
    /\ FinishTrigger(r, res)
    /\ UNCHANGED <<now, launches, lastOp, nextAlertId, watchlist, checkInterval, timers,
                   nextTimer>>
    /\ UNCHANGED <<evalIn, evalOut, disc, serviceVars>>

(***************************************************************************)
(* Commands and the poller, as far as they touch the alert engine          *)
(***************************************************************************)
\* !alert <contract> <condition>: store.createAlert
CreateAlertCmd ==
  \E u \in Users, c \in AlertConditions :
    /\ nextAlertId <= MaxAlerts
    /\ alerts' = CreateAlert(alerts, nextAlertId, u, "0xA", c.conditionType,
                             c.operator, c.threshold, now)
    /\ nextAlertId' = nextAlertId + 1
    /\ UNCHANGED <<now, launches, lastOp, watchlist, checkInterval, timers, nextTimer,
                   runs, sent, matched, lastDelivery>>
    /\ UNCHANGED <<evalIn, evalOut, disc, serviceVars>>

\* !alert delete <id>: store.deleteAlert(alertId, message.author.id)
DeleteAlertCmd ==
  \E u \in Users, id \in AlertIds :
    /\ alerts' = DeleteAlert(alerts, id, u)
    /\ UNCHANGED <<now, launches, lastOp, nextAlertId, watchlist, checkInterval, timers,
                   nextTimer, runs, sent, matched, lastDelivery>>
    /\ UNCHANGED <<evalIn, evalOut, disc, serviceVars>>

\* mutant: the tick ends after upsertLaunches(launches), without the prune
PollStore_noPrune(T, batch, t) == UpsertLaunches(T, batch)

\* mutant: pruneOldLaunches(48) before upsertLaunches(launches)
PollStore_pruneFirst(T, batch, t) == UpsertLaunches(PruneOldLaunches(T, 48, t), batch)

\* the synchronous tail of a poll tick: upsertLaunches(launches); pruneOldLaunches(48).
\* If the upsert throws, poll's catch is entered and the prune is skipped.
PollStore(T, batch, t) ==
  IF UpsertLaunchesThrows(T, batch) THEN UpsertLaunches(T, batch)
  ELSE PruneOldLaunches(UpsertLaunches(T, batch), 48, t)

EnginePoll ==
  \E batch \in SeqsUpTo(EngineLaunchInputs(now), 1) :
    /\ launches' = PollStore(launches, batch, now)
    /\ UNCHANGED <<now, lastOp, alerts, nextAlertId, watchlist, checkInterval, timers,
                   nextTimer, runs, sent, matched, lastDelivery>>
    /\ UNCHANGED <<evalIn, evalOut, disc, serviceVars>>

(***************************************************************************)
(* LaunchStore operations on the launches table, called one at a time      *)
(***************************************************************************)
AnyThrows(batch) == \E k \in 1..Len(batch) : UpsertThrows(batch[k])

\* the history record of a write: repeat says that the write before it was the
\* same successful call with the same argument
OpRecord(kind, batch) ==
  [kind |-> kind, batch |-> batch,
   repeat |-> lastOp.kind = kind /\ lastOp.batch = batch /\ ~AnyThrows(batch)]

\* store.upsertLaunch(launch); a throwing statement leaves the table as it was
UpsertLaunchOp ==
  \E l \in StoreLaunchInputs(now) :
    /\ launches' = IF UpsertThrows(l) THEN launches ELSE UpsertLaunch(launches, l)
    /\ lastOp' = OpRecord("upsert", <<l>>)
    /\ UNCHANGED <<now, alerts, nextAlertId, watchlist, checkInterval, timers, nextTimer,
                   runs, sent, matched, lastDelivery, evalIn, evalOut, disc,
                   serviceVars>>

\* store.upsertLaunches(launches)
UpsertLaunchesOp ==
  \E batch \in SeqsUpTo(BatchLaunchInputs(now), MaxBatch) :
    /\ launches' = UpsertLaunches(launches, batch)
    /\ lastOp' = OpRecord("upsertMany", batch)
    /\ UNCHANGED <<now, alerts, nextAlertId, watchlist, checkInterval, timers, nextTimer,
                   runs, sent, matched, lastDelivery, evalIn, evalOut, disc,
                   serviceVars>>

\* store.pruneOldLaunches(48)
PruneOp ==
  /\ launches' = PruneOldLaunches(launches, 48, now)
  /\ lastOp' = OpRecord("prune", <<>>)
  /\ UNCHANGED <<now, alerts, nextAlertId, watchlist, checkInterval, timers, nextTimer,
                 runs, sent, matched, lastDelivery, evalIn, evalOut, disc,
                   serviceVars>>

\* Date.now() moves on
AdvanceClock ==
  /\ now + ClockStep \in ClockValues
  /\ now' = now + ClockStep
  /\ UNCHANGED <<launches, lastOp, alerts, nextAlertId, watchlist, checkInterval, timers,
                 nextTimer, runs, sent, matched, lastDelivery, evalIn, evalOut, disc,
                   serviceVars>>

(***************************************************************************)
(* Initial state: empty tables, no timer, nothing in flight                *)
(***************************************************************************)
NoOp == [kind |-> "none", batch |-> <<>>, repeat |-> FALSE]
NoDelivery == [id |-> 0, outcome |-> "none"]
NoEval == [alert |-> [conditionType |-> "price", operator |-> ">", threshold |-> 0],
           launch |-> [priceUsd |-> 0, volume24h |-> 0, marketCap |-> 0]]
DiscIdle == [pc |-> "idle", term |-> 0, allPairs |-> <<>>, seenAddresses |-> {},
             pairs |-> <<>>, ran |-> {}, failed |-> {}]

InitStore ==
  /\ now = TimeBase
  /\ launches = <<>>
  /\ lastOp = NoOp

InitAlerts ==
  /\ alerts = {}
  /\ nextAlertId = 1
  /\ watchlist = {}
  /\ checkInterval = NoTimer
  /\ timers = {}
  /\ nextTimer = 1
  /\ runs = [r \in RunIds |-> RunIdle]
  /\ sent = [id \in AlertIds |-> 0]
  /\ matched = {}
  /\ lastDelivery = NoDelivery

InitEvalIdle ==
  /\ evalIn = NoEval
  /\ evalOut = "none"

InitDiscIdle == disc = DiscIdle

\* Date.now() in ms when the client is first used; lastRequestTime starts at 0
MinRequestInterval == 500
GateBase == 2 * MinRequestInterval
Callers == 1..MaxCallers

GateIdle ==
  [clock |-> GateBase, lastRequestTime |-> 0, wakeAt |-> [c \in Callers |-> 0],
   dispatches |-> 0, lastDispatch |-> 0, firstDispatch |-> 0]

RetryIdle ==
  [pc |-> "idle", kind |-> "none", maxRetries |-> 0, attempt |-> 0, log |-> <<>>,
   waits |-> <<>>, lastError |-> Null, result |-> Null]

FilterIdle == [pairs |-> <<>>, out |-> <<>>, done |-> FALSE]

QueryIdle ==
  [kind |-> "none", at |-> 0, timeframeHours |-> 0, sortBy |-> "volume", limit |-> 0,
   tokenAddress |-> Null, result |-> <<>>, batch |-> <<>>, changes |-> 0,
   prunedBefore |-> 0]

PollerIdle ==
  [isPolling |-> FALSE, pollInterval |-> NoTimer, timers |-> {}, nextTimer |-> 1,
   starting |-> 0, ticks |-> 0, stopped |-> FALSE, lastCall |-> "none",
   lastPoll |-> "none", firedAfter |-> "none"]

InitGateIdle == gate = GateIdle
InitRetryIdle == retry = RetryIdle
InitFilterIdle == filt = FilterIdle
InitQueryIdle == query = QueryIdle
InitPollerIdle == poller = PollerIdle

CmdIdle ==
  [kind |-> "none", userId |-> Null, address |-> Null, condition |-> Null,
   reply |-> "none", alertId |-> 0, before |-> {}, result |-> <<>>]

InitCmdIdle == cmd = CmdIdle

CheckIdle ==
  [pc |-> "idle", snap |-> <<>>, faults |-> <<>>, log |-> <<>>, ticks |-> 0,
   notified |-> {}, skipped |-> {}, skippedBefore |-> {}]

InitCheckIdle == check = CheckIdle

TickIdle ==
  [pc |-> "idle", steps |-> <<>>, pairs |-> <<>>, validPairs |-> <<>>,
   launches |-> <<>>, polls |-> 0]

InitTickIdle == tick = TickIdle

MultiIdle ==
  [pc |-> "idle", tokenAddresses |-> <<>>, batches |-> <<>>, requests |-> <<>>,
   responses |-> <<>>, inFlight |-> 0, allPairs |-> <<>>, result |-> <<>>]

InitMultiIdle == multi = MultiIdle

InitHarnessIdle == InitCmdIdle /\ InitCheckIdle /\ InitTickIdle /\ InitMultiIdle

InitServicesIdle ==
  /\ InitGateIdle /\ InitRetryIdle /\ InitFilterIdle /\ InitQueryIdle /\ InitPollerIdle
  /\ InitHarnessIdle

(***************************************************************************)
(* Specification of the alert engine with its environment                  *)
(***************************************************************************)
InitAlert == InitStore /\ InitAlerts /\ InitEvalIdle /\ InitDiscIdle /\ InitServicesIdle

NextAlert ==
  \/ StartChecking
  \/ StopChecking
  \/ AlertTimerFire
  \/ UsersFetchSettles
  \/ UserSendSettles
  \/ CreateAlertCmd
  \/ DeleteAlertCmd
  \/ EnginePoll

SpecAlert == InitAlert /\ [][NextAlert]_vars

\* the same engine with its scheduling assumptions: a timer that stays
\* scheduled fires again, and an awaited users.fetch or user.send settles
SpecAlertLive ==
  /\ InitAlert
  /\ [][NextAlert]_vars
  /\ WF_vars(AlertTimerFire)
  /\ WF_vars(UsersFetchSettles)
  /\ WF_vars(UserSendSettles)

(***************************************************************************)
(* Claims about the alert engine (SpecAlert)                               *)
(***************************************************************************)
ActiveIds(snap) == {snap[k].id : k \in 1..Len(snap)}
Suspended(r) == runs[r].pc # "idle"

\* C1: an alert whose condition matched during a tick (its id is in `matched`)
\* is in no getActiveAlerts result taken by a tick that starts afterwards.
C1_OneShotNextTick ==
  [][\A r \in RunIds :
       (runs[r].pc = "idle" /\ runs'[r].pc # "idle")
         => ActiveIds(runs'[r].snap) \cap matched = {}]_vars

\* C2: after a delivery attempt that failed other than by "unreachable
\* recipient" (send error, user lookup failed or empty), the alert is still
\* untriggered.
C2_FailureLeavesUntriggered ==
  lastDelivery.outcome \in {"error", "fetchfail", "nouser"}
    => \A a \in alerts : a.id = lastDelivery.id => ~a.triggered

\* C3: after a delivery attempt that succeeded or failed with "unreachable
\* recipient" (50007), the alert, if it still exists, is triggered; the mark is
\* made in the step in which the attempt returns.
C3_DeliveredOrUnreachableMarks ==
  lastDelivery.outcome \in {"ok", "unreachable"}
    => \A a \in alerts : a.id = lastDelivery.id => a.triggered

C3_Witness ==
  /\ lastDelivery.outcome = "unreachable"
  /\ \E a \in alerts : a.id = lastDelivery.id /\ a.triggered

\* C4: a triggered alert never has triggered = false again: over every step,
\* a row that is triggered is triggered in the next state if it still exists.
C4_TriggeredMonotonic ==
  [][\A a \in alerts : a.triggered =>
       \A b \in alerts' : b.id = a.id => b.triggered]_vars

\* a triggered alert that a second, overlapping run is about to mark again
C4_Witness ==
  \E a \in alerts, r \in RunIds :
    /\ a.triggered
    /\ Suspended(r)
    /\ runs[r].snap[runs[r].i].id = a.id

\* C5: over its lifetime an alert's notification is delivered at most once.
C5_DeliveredAtMostOnce == \A id \in AlertIds : sent[id] <= 1

(***************************************************************************)
(* Specification of the evaluator: evaluateAlert applied to sample inputs  *)
(* (values in tenths: threshold 1000 is 100.0, current 1009 is 100.9)      *)
(***************************************************************************)
EvalValues == {0, 1, 2, 989, 990, 1000, 1009, 1010, 1011, 1020}
EvalThresholds == {0, 1, 1000}

EvalInputs ==
  [alert : [conditionType : {"price", "volume", "mcap", "liquidity"},
            operator : {">", "<", "=", "!"},
            threshold : EvalThresholds],
   launch : [priceUsd : EvalValues, volume24h : EvalValues, marketCap : EvalValues]]

InitEval ==
  /\ InitStore /\ InitAlerts /\ InitDiscIdle /\ InitServicesIdle
  /\ evalIn \in EvalInputs
  /\ evalOut = "none"

\* this.evaluateAlert(alert, launch)
Evaluate ==
  /\ evalOut = "none"
  /\ evalOut' = IF EvaluateAlert(evalIn.alert, evalIn.launch) THEN "match" ELSE "nomatch"
  /\ UNCHANGED <<evalIn, disc, now, launches, lastOp, alerts, nextAlertId, watchlist,
                 checkInterval, timers, nextTimer, runs, sent, matched, lastDelivery,
                 serviceVars>>

NextEval == Evaluate

SpecEval == InitEval /\ [][NextEval]_vars

\* the launch value an alert of the given condition type is about
ValueNamedBy(conditionType, launch) ==
  IF conditionType = "price" THEN launch.priceUsd
  ELSE IF conditionType = "volume" THEN launch.volume24h
  ELSE launch.marketCap

\* C6: for operator '=', evaluateAlert matches iff |current - threshold| <=
\* 0.01 * threshold; threshold 100 matches current 100.9 and not 102;
\* threshold 0 matches only current 0.
C6_ToleranceBand ==
  (/\ evalOut # "none"
   /\ evalIn.alert.operator = "="
   /\ evalIn.alert.conditionType \in {"price", "volume", "mcap"})
    => LET t == evalIn.alert.threshold
           c == ValueNamedBy(evalIn.alert.conditionType, evalIn.launch)
       IN /\ (evalOut = "match") <=> (100 * Abs(c - t) <= t)
          /\ (t = 1000 /\ c = 1009) => evalOut = "match"
          /\ (t = 1000 /\ c = 1020) => evalOut = "nomatch"
          /\ (t = 0) => ((evalOut = "match") <=> (c = 0))

C6_Witness ==
  /\ evalOut = "match"
  /\ evalIn.alert = [conditionType |-> "price", operator |-> "=", threshold |-> 1000]
  /\ evalIn.launch.priceUsd = 1009

(***************************************************************************)
(* Specification of the launch store                                       *)
(***************************************************************************)
InitStoreSpec ==
  InitStore /\ InitAlerts /\ InitEvalIdle /\ InitDiscIdle /\ InitServicesIdle

NextStore ==
  \/ UpsertLaunchOp
  \/ UpsertLaunchesOp
  \/ PruneOp
  \/ AdvanceClock

SpecStore == InitStoreSpec /\ [][NextStore]_vars

\* the last element of a batch for pair address pa
LastFor(batch, pa) ==
  batch[CHOOSE k \in 1..Len(batch) :
          /\ batch[k].pairAddress = pa
          /\ \A m \in 1..Len(batch) : batch[m].pairAddress = pa => m <= k]

BatchAddresses(batch) == {batch[k].pairAddress : k \in 1..Len(batch)}

IsUpsert(op) == op.kind \in {"upsert", "upsertMany"}

\* C7: over every step, a row whose pairAddress stays in the table keeps its
\* seven identity fields; its six market fields change only by an upsert of
\* that pairAddress, and a successful upsert sets them to the upserted values.
C7_MergeKeepsIdentity ==
  [][\A i \in 1..Len(launches) : \A j \in 1..Len(launches') :
       launches[i].pairAddress = launches'[j].pairAddress =>
         LET pa == launches[i].pairAddress
             hit == /\ IsUpsert(lastOp')
                    /\ ~AnyThrows(lastOp'.batch)
                    /\ pa \in BatchAddresses(lastOp'.batch)
         IN /\ IdentityFields(launches'[j]) = IdentityFields(launches[i])
            /\ MutableFields(launches'[j]) # MutableFields(launches[i]) => hit
            /\ (hit /\ lastOp' # lastOp) =>
                 MutableFields(launches'[j]) = MutableFields(LastFor(lastOp'.batch, pa))]_vars

\* a row first inserted as "Alpha" holds the market values of a later upsert
\* that named the same pool "Beta"
C7_Witness ==
  /\ lastOp.kind = "upsert"
  /\ \E i \in 1..Len(launches) :
       /\ launches[i].pairAddress = lastOp.batch[1].pairAddress
       /\ launches[i].name = "Alpha" /\ lastOp.batch[1].name = "Beta"
       /\ launches[i].lastUpdated > TimeBase
       /\ MutableFields(launches[i]) = MutableFields(lastOp.batch[1])

\* C8: a successful upsertLaunch(l) that directly follows upsertLaunch(l) with
\* the identical launch leaves the table as the first left it, with exactly
\* one row for l.pairAddress.
C8_UpsertIdempotent ==
  [][(/\ lastOp.kind = "upsert" /\ lastOp'.kind = "upsert"
      /\ lastOp'.batch = lastOp.batch
      /\ lastOp'.repeat)
       => /\ launches' = launches
          /\ Cardinality(RowsOf(launches', lastOp'.batch[1].pairAddress)) = 1]_vars

C8_Witness ==
  /\ lastOp.kind = "upsert" /\ lastOp.repeat
  /\ Cardinality(RowsOf(launches, lastOp.batch[1].pairAddress)) = 1

\* C9: upsertLaunches is all or nothing: after the call either some upsert of
\* the batch threw and the table is exactly as before, or every pair address
\* of the batch has one row holding all six market values of its last batch
\* element; rows of other pair addresses are untouched.
C9_BatchAtomic ==
  [][(lastOp'.kind = "upsertMany" /\ lastOp' # lastOp) =>
       LET batch == lastOp'.batch
       IN IF AnyThrows(batch) THEN launches' = launches
          ELSE /\ \A pa \in BatchAddresses(batch) :
                    /\ Cardinality(RowsOf(launches', pa)) = 1
                    /\ \A j \in RowsOf(launches', pa) :
                         MutableFields(launches'[j]) = MutableFields(LastFor(batch, pa))
               /\ \A i \in 1..Len(launches) :
                    launches[i].pairAddress \notin BatchAddresses(batch)
                      => launches'[i] = launches[i]]_vars

\* a batch whose second upsert threw after a first one that would have changed
\* the table: the table shows none of it
C9_Witness ==
  /\ lastOp.kind = "upsertMany"
  /\ Len(lastOp.batch) = 2
  /\ ~UpsertThrows(lastOp.batch[1]) /\ UpsertThrows(lastOp.batch[2])
  /\ \A i \in 1..Len(launches) :
       launches[i].pairAddress = lastOp.batch[1].pairAddress
         => MutableFields(launches[i]) # MutableFields(lastOp.batch[1])

(***************************************************************************)
(* Discovery aggregator: DexScreenerService.fetchBasePairs                 *)
(***************************************************************************)
\* pairs the API can return: one pool in two spellings of its address, a
\* second pool, and a pair of another chain
PairSamples ==
  { [pairAddress |-> "0xP1", chainId |-> "base", priceUsd |-> "1"],
    [pairAddress |-> "0xp1", chainId |-> "base", priceUsd |-> "2"],
    [pairAddress |-> "0xp2", chainId |-> "base", priceUsd |-> "1"],
    [pairAddress |-> "0xP2", chainId |-> "solana", priceUsd |-> "2"] }

PairResponses == SeqsUpTo(PairSamples, MaxPairs)

\* mutant of addPairs: the address is compared as spelled
RECURSIVE AddPairs_caseSensitive(_, _, _)
AddPairs_caseSensitive(allPairs, seenAddresses, pairs) ==
  IF pairs = <<>> THEN [allPairs |-> allPairs, seenAddresses |-> seenAddresses]
  ELSE LET pair == Head(pairs)
           addr == pair.pairAddress
       IN IF addr \notin seenAddresses
          THEN AddPairs_caseSensitive(Append(allPairs, pair),
                                      seenAddresses \cup {addr}, Tail(pairs))
          ELSE AddPairs_caseSensitive(allPairs, seenAddresses, Tail(pairs))

\* addPairs(pairs) on the locals allPairs and seenAddresses
RECURSIVE AddPairs(_, _, _)
AddPairs(allPairs, seenAddresses, pairs) ==
  IF pairs = <<>> THEN [allPairs |-> allPairs, seenAddresses |-> seenAddresses]
  ELSE LET pair == Head(pairs)
           addr == ToLowerCase(pair.pairAddress)
       IN IF addr \notin seenAddresses
          THEN AddPairs(Append(allPairs, pair), seenAddresses \cup {addr}, Tail(pairs))
          ELSE AddPairs(allPairs, seenAddresses, Tail(pairs))

IsBase(p) == p.chainId = "base"

DiscUnchanged ==
  UNCHANGED <<now, launches, lastOp, alerts, nextAlertId, watchlist, checkInterval, timers,
              nextTimer, runs, sent, matched, lastDelivery, evalIn, evalOut,
              serviceVars>>

\* the strategies of a run, numbered in source order: profiles, latest boosts,
\* top boosts, then one per search term
StrategyIndex(d) ==
  CASE d.pc = "profiles" -> 1
    [] d.pc = "latestBoosts" -> 2
    [] d.pc = "topBoosts" -> 3
    [] OTHER -> 4 + d.term

Strategies == 1..(3 + MaxTerms)

\* mutant of the try/catch around a strategy: the error escapes fetchBasePairs
Caught_rethrow(throws, next) == IF throws THEN "rejected" ELSE next

\* try { ... } catch (error) { console.error(...) }: the run goes on with the
\* statement after the try
Caught(throws, next) == next

\* the call: fresh locals allPairs = [] and seenAddresses = new Set()
FetchBasePairs ==
  /\ disc.pc = "idle"
  /\ disc' = [pc |-> "profiles", term |-> 0, allPairs |-> <<>>,
              seenAddresses |-> {}, pairs |-> <<>>, ran |-> {}, failed |-> {}]
  /\ DiscUnchanged

\* one of strategies 1 to 3: the list request throws (caught, nothing added),
\* or fetchMultipleTokens returns pairs, which are added as they come
TokenStrategy(from, to) ==
  /\ disc.pc = from
  /\ \E throws \in BOOLEAN, response \in PairResponses :
       LET pairs == IF throws THEN <<>> ELSE response
           st == AddPairs(disc.allPairs, disc.seenAddresses, pairs)
       IN disc' = [pc |-> Caught(throws, to), term |-> 0, allPairs |-> st.allPairs,
                   seenAddresses |-> st.seenAddresses, pairs |-> pairs,
                   ran |-> disc.ran \cup {StrategyIndex(disc)},
                   failed |-> IF throws THEN disc.failed \cup {StrategyIndex(disc)}
                              ELSE disc.failed]
  /\ DiscUnchanged

ProfilesStrategy == TokenStrategy("profiles", "latestBoosts")
LatestBoostsStrategy == TokenStrategy("latestBoosts", "topBoosts")
TopBoostsStrategy == TokenStrategy("topBoosts", "search")

\* strategy 4, one term of SEARCH_TERMS: searchPairs throws (caught), or its
\* pairs of chain 'base' are added
SearchTerm ==
  /\ disc.pc = "search"
  /\ disc.term < MaxTerms
  /\ \E throws \in BOOLEAN, response \in PairResponses :
       LET basePairs == IF throws THEN <<>> ELSE SelectSeq(response, IsBase)
           st == AddPairs(disc.allPairs, disc.seenAddresses, basePairs)
       IN disc' = [pc |-> Caught(throws, "search"), term |-> disc.term + 1,
                   allPairs |-> st.allPairs,
                   seenAddresses |-> st.seenAddresses, pairs |-> basePairs,
                   ran |-> disc.ran \cup {StrategyIndex(disc)},
                   failed |-> IF throws THEN disc.failed \cup {StrategyIndex(disc)}
                              ELSE disc.failed]
  /\ DiscUnchanged

\* return allPairs
ReturnAllPairs ==
  /\ disc.pc = "search"
  /\ disc.term = MaxTerms
  /\ disc' = [disc EXCEPT !.pc = "idle", !.pairs = <<>>]
  /\ DiscUnchanged

InitDisc == InitStore /\ InitAlerts /\ InitEvalIdle /\ InitDiscIdle /\ InitServicesIdle

NextDisc ==
  \/ FetchBasePairs
  \/ ProfilesStrategy
  \/ LatestBoostsStrategy
  \/ TopBoostsStrategy
  \/ SearchTerm
  \/ ReturnAllPairs

SpecDisc == InitDisc /\ [][NextDisc]_vars

PairKey(p) == ToLowerCase(p.pairAddress)

PairKeys(s) == {PairKey(s[k]) : k \in 1..Len(s)}

\* the positions of fed whose pool is not among kept and not earlier in fed
NewPositions(kept, fed) ==
  {k \in 1..Len(fed) :
     /\ PairKey(fed[k]) \notin PairKeys(kept)
     /\ \A m \in 1..(k - 1) : PairKey(fed[m]) # PairKey(fed[k])}

\* the pairs at those positions, in the order of fed
FirstOccurrences(kept, fed) ==
  LET new == NewPositions(kept, fed)
  IN [n \in 1..Cardinality(new) |->
        fed[CHOOSE k \in new : Cardinality({m \in new : m <= k}) = n]]

\* the step that follows each position of a run
StrategyOrder(d, e) ==
  /\ d.pc = "idle" => e.pc = "profiles" /\ e.allPairs = <<>>
  /\ d.pc = "profiles" => e.pc = "latestBoosts"
  /\ d.pc = "latestBoosts" => e.pc = "topBoosts"
  /\ d.pc = "topBoosts" => e.pc = "search" /\ e.term = 0
  /\ d.pc = "search" => \/ e.pc = "search" /\ e.term = d.term + 1
                        \/ e.pc = "idle" /\ d.term = MaxTerms

\* C10: in every step of a fetchBasePairs run the aggregate has no two pairs
\* whose pairAddress is equal after lower-casing, the pairs already kept stay
\* as they are and where they are, and what a strategy adds is the first
\* occurrence, in the order of its response, of each pool not kept before;
\* the strategies run in the order profiles, latest boosts, top boosts, then
\* the search terms.
C10_DedupFirstWins ==
  [][/\ StrategyOrder(disc, disc')
     /\ \A i, j \in 1..Len(disc'.allPairs) :
          i # j => PairKey(disc'.allPairs[i]) # PairKey(disc'.allPairs[j])
     /\ disc.pc # "idle" =>
          disc'.allPairs = disc.allPairs \o FirstOccurrences(disc.allPairs, disc'.pairs)]_vars

\* a strategy returned a pool that an earlier strategy had returned in another
\* spelling or with other values: the earlier pair is the one kept
C10_Witness ==
  \E k \in 1..Len(disc.pairs), i \in 1..Len(disc.allPairs) :
    /\ PairKey(disc.pairs[k]) = PairKey(disc.allPairs[i])
    /\ \A m \in 1..Len(disc.pairs) :
         PairKey(disc.pairs[m]) = PairKey(disc.pairs[k]) => disc.pairs[m] # disc.allPairs[i]

\* a step of a run that is one of its strategies
StrategyStep(d) == d.pc \in {"profiles", "latestBoosts", "topBoosts"}
                   \/ (d.pc = "search" /\ d.term < MaxTerms)

\* C11: a strategy or search term that fails adds nothing to the aggregate and
\* the run goes on with the next one; one that succeeds adds its pairs
\* deduplicated; the run never rejects, and when it returns every strategy and
\* every term has run and the result is the aggregate as the last one left it.
C11_StrategyIsolation ==
  [][/\ disc'.pc # "rejected"
     /\ StrategyStep(disc) =>
          /\ disc'.ran = disc.ran \cup {StrategyIndex(disc)}
          /\ IF StrategyIndex(disc) \in disc'.failed
             THEN disc'.allPairs = disc.allPairs
             ELSE disc'.allPairs =
                    disc.allPairs \o FirstOccurrences(disc.allPairs, disc'.pairs)
     /\ (disc.pc = "search" /\ disc'.pc = "idle") =>
          /\ disc.ran = Strategies
          /\ disc'.allPairs = disc.allPairs]_vars

\* a returned run whose first strategy and a search term failed, with pairs of
\* the strategies between them in the result
C11_Witness ==
  /\ disc.pc = "idle"
  /\ disc.ran = Strategies
  /\ {1, 4} \subseteq disc.failed
  /\ disc.failed # Strategies
  /\ disc.allPairs # <<>>

(***************************************************************************)
(* Request gate: DexScreenerService.rateLimitedRequest, time in ms         *)
(***************************************************************************)
ClockTick == MinRequestInterval \div 5
GateClockValues == {GateBase + k * ClockTick : k \in 0..MaxGateTicks}

GateUnchanged ==
  UNCHANGED <<now, launches, lastOp, alerts, nextAlertId, watchlist, checkInterval, timers,
              nextTimer, runs, sent, matched, lastDelivery, evalIn, evalOut, disc,
              retry, filt, query, poller, harnessVars>>

\* this.lastRequestTime = Date.now(); return fn(): the request is dispatched
Dispatch(g, t) ==
  [g EXCEPT !.lastRequestTime = t,
            !.dispatches = @ + 1,
            !.lastDispatch = t,
            !.firstDispatch = IF g.dispatches = 0 THEN t ELSE @]

\* a caller enters rateLimitedRequest: it dispatches at once, or suspends on
\* setTimeout for the rest of the interval it computed from lastRequestTime
RateLimitedRequest(c) ==
  /\ gate.wakeAt[c] = 0
  /\ LET timeSinceLastRequest == gate.clock - gate.lastRequestTime
     IN gate' = IF timeSinceLastRequest < MinRequestInterval
                THEN [gate EXCEPT !.wakeAt[c] =
                        gate.clock + (MinRequestInterval - timeSinceLastRequest)]
                ELSE Dispatch(gate, gate.clock)
  /\ GateUnchanged

\* the setTimeout of a suspended caller resolves, at its time or later
GateTimerResolves(c) ==
  /\ gate.wakeAt[c] # 0
  /\ gate.clock >= gate.wakeAt[c]
  /\ gate' = Dispatch([gate EXCEPT !.wakeAt[c] = 0], gate.clock)
  /\ GateUnchanged

\* Date.now() moves on
GateClockTick ==
  /\ gate.clock + ClockTick \in GateClockValues
  /\ gate' = [gate EXCEPT !.clock = @ + ClockTick]
  /\ GateUnchanged

InitGate ==
  /\ InitStore /\ InitAlerts /\ InitEvalIdle /\ InitDiscIdle
  /\ InitGateIdle /\ InitRetryIdle /\ InitFilterIdle /\ InitQueryIdle /\ InitPollerIdle
  /\ InitHarnessIdle

NextGate ==
  \/ \E c \in Callers : RateLimitedRequest(c)
  \/ \E c \in Callers : GateTimerResolves(c)
  \/ GateClockTick

SpecGate == InitGate /\ [][NextGate]_vars

\* C12: every dispatch through the gate comes at least minRequestInterval
\* after the dispatch before it, whichever callers made the two.
C12_Pacing ==
  [][(gate'.dispatches > gate.dispatches /\ gate.dispatches > 0)
       => gate'.lastDispatch - gate.lastDispatch >= MinRequestInterval]_vars

(***************************************************************************)
(* Retry: DexScreenerService.retryWithBackoff around one request function  *)
(***************************************************************************)
DefaultMaxRetries == 3

\* what one HTTP request can come to: a body, a 404, a 500, a timeout
RequestOutcomes == {"data1", "data2", "notFound", "http500", "timeout"}

\* the wrapped functions: fetchPairByAddress has its own try/catch, the others
\* (here fetchTokenPairs) have none
RetryKinds == {"fetchTokenPairs", "fetchPairByAddress"}

\* mutant: the 404 of fetchPairByAddress is thrown on like any other error
CatchesNotFound_never(kind, outcome) == FALSE

\* catch (error) { if (error.response?.status === 404) return null; throw error; }
CatchesNotFound(kind, outcome) ==
  kind = "fetchPairByAddress" /\ outcome = "notFound"

\* the wrapped function throws on this outcome
FnThrows(kind, outcome) ==
  outcome \notin {"data1", "data2"} /\ ~CatchesNotFound(kind, outcome)

\* the value the wrapped function returns when it does not throw
FnValue(kind, outcome) ==
  IF CatchesNotFound(kind, outcome) THEN Null ELSE outcome

\* mutant: the loop runs while attempt <= maxRetries
LoopContinues_offByOne(attempt, maxRetries) == attempt <= maxRetries

\* for (let attempt = 0; attempt < maxRetries; attempt++)
LoopContinues(attempt, maxRetries) == attempt < maxRetries

\* if (attempt < maxRetries - 1)
WaitsBeforeNext(attempt, maxRetries) == attempt < maxRetries - 1

\* mutant: a fixed delay
BackoffMs_constant(attempt) == 1000

\* Math.pow(2, attempt) * 1000
BackoffMs(attempt) == (2 ^ attempt) * 1000

\* attempt++ and the loop test: the next attempt, or throw lastError
NextIteration(r) ==
  [r EXCEPT !.attempt = @ + 1,
            !.pc = IF LoopContinues(r.attempt + 1, r.maxRetries)
                   THEN "attempt" ELSE "rejected"]

RetryUnchanged ==
  UNCHANGED <<now, launches, lastOp, alerts, nextAlertId, watchlist, checkInterval, timers,
              nextTimer, runs, sent, matched, lastDelivery, evalIn, evalOut, disc,
              gate, filt, query, poller, harnessVars>>

\* a call of retryWithBackoff(fn, maxRetries)
RetryWithBackoff ==
  /\ retry.pc = "idle"
  /\ \E kind \in RetryKinds, maxRetries \in 1..DefaultMaxRetries :
       retry' = [RetryIdle EXCEPT !.pc = "attempt", !.kind = kind,
                                  !.maxRetries = maxRetries]
  /\ RetryUnchanged

\* await fn() settles: return its value, or catch the error and either
\* suspend on the backoff timer or leave the loop
RetryAttempt ==
  /\ retry.pc = "attempt"
  /\ \E outcome \in RequestOutcomes :
       LET logged == [retry EXCEPT !.log = Append(@, outcome)]
       IN retry' =
            IF ~FnThrows(retry.kind, outcome)
            THEN [logged EXCEPT !.pc = "returned",
                                !.result = FnValue(retry.kind, outcome)]
            ELSE LET caught == [logged EXCEPT !.lastError = outcome]
                 IN IF WaitsBeforeNext(retry.attempt, retry.maxRetries)
                    THEN [caught EXCEPT !.pc = "backoff"]
                    ELSE NextIteration(caught)
  /\ RetryUnchanged

\* await new Promise(resolve => setTimeout(resolve, backoffMs)) resolves
RetryBackoffElapses ==
  /\ retry.pc = "backoff"
  /\ retry' = NextIteration([retry EXCEPT !.waits = Append(@, BackoffMs(retry.attempt))])
  /\ RetryUnchanged

InitRetry ==
  /\ InitStore /\ InitAlerts /\ InitEvalIdle /\ InitDiscIdle /\ InitServicesIdle

NextRetry ==
  \/ RetryWithBackoff
  \/ RetryAttempt
  \/ RetryBackoffElapses

SpecRetry == InitRetry /\ [][NextRetry]_vars

LastOutcome(r) == r.log[Len(r.log)]

\* C13: the wrapped function is invoked at most maxRetries times and never
\* again after an invocation that succeeded; the call returns the value of
\* that invocation; it rejects only after maxRetries failed invocations, with
\* the error of the last one.
C13_BoundedAttempts ==
  /\ Len(retry.log) <= retry.maxRetries
  /\ \A k \in 1..(Len(retry.log) - 1) : FnThrows(retry.kind, retry.log[k])
  /\ (retry.log # <<>> /\ ~FnThrows(retry.kind, LastOutcome(retry)))
       => /\ retry.pc = "returned"
          /\ retry.result = FnValue(retry.kind, LastOutcome(retry))
  /\ retry.pc = "returned" => ~FnThrows(retry.kind, LastOutcome(retry))
  /\ retry.pc = "rejected"
       => /\ Len(retry.log) = retry.maxRetries
          /\ retry.lastError = LastOutcome(retry)
          /\ FnThrows(retry.kind, LastOutcome(retry))

\* three failed attempts of a default call: rejected with the third error
C13_Witness ==
  /\ retry.pc = "rejected"
  /\ retry.maxRetries = DefaultMaxRetries
  /\ retry.log = <<"http500", "http500", "timeout">>
  /\ retry.lastError = "timeout"

\* C14: the wait after the k-th failed attempt (k from 0) is 2^k * 1000 ms,
\* there is one wait between two attempts and none after the last attempt.
C14_BackoffSchedule ==
  /\ \A k \in 1..Len(retry.waits) : retry.waits[k] = (2 ^ (k - 1)) * 1000
  /\ retry.pc = "attempt" => Len(retry.waits) = Len(retry.log)
  /\ retry.pc \in {"backoff", "returned", "rejected"}
       => Len(retry.waits) = Len(retry.log) - 1

\* attempts 1 and 2 failed, attempt 3 succeeded: waits of 1000 and 2000 ms
C14_Witness ==
  /\ retry.pc = "returned"
  /\ Len(retry.log) = 3
  /\ retry.result = "data1"
  /\ retry.waits = <<1000, 2000>>

\* C15: fetchPairByAddress answered 404 on its first request returns null
\* after that one attempt, without a wait; on any other error it is attempted
\* again while attempts remain and rejects only after maxRetries attempts.
C15_NotFoundIsEmpty ==
  retry.kind = "fetchPairByAddress" =>
    /\ (retry.log # <<>> /\ retry.log[1] = "notFound")
         => /\ retry.pc = "returned"
            /\ retry.result = Null
            /\ Len(retry.log) = 1
            /\ retry.waits = <<>>
    /\ (retry.log # <<>> /\ LastOutcome(retry) \in {"http500", "timeout"}
          /\ Len(retry.log) < retry.maxRetries)
         => retry.pc \in {"backoff", "attempt"}
    /\ retry.pc = "rejected" => Len(retry.log) = retry.maxRetries

C15_Witness ==
  /\ retry.kind = "fetchPairByAddress"
  /\ retry.maxRetries = DefaultMaxRetries
  /\ retry.log = <<"notFound">>
  /\ retry.pc = "returned"

(***************************************************************************)
(* Filter: DexScreenerService.filterValidPairs on pairs of the API.        *)
(* An optional number is <<>> when missing and <<v>> when present; times   *)
(* are in minutes.                                                         *)
(***************************************************************************)
MinLiquidityUsd == 1000
MinVolumeUsd == 500
MinPairAgeMinutes == 5
MAX_MCAP_FOR_NEW_LAUNCH == 50000000
MaxPairAgeDays == 7

\* x || 0
OrZero(x) == IF x = <<>> THEN 0 ELSE x[1]

\* String.prototype.toUpperCase on the sample symbols
ToUpperCase(sym) ==
  CASE sym = "weth" -> "WETH"
    [] sym = "alpha" -> "ALPHA"
    [] OTHER -> sym

\* the sample symbols that are in BLOCKED_SYMBOLS
BLOCKED_SYMBOLS == {"WETH"}

\* BLOCKED_NAME_PATTERNS.some(pattern => pattern.test(name)) on the sample names
BlockedName(name) == name \in {"Wrapped Ether"}

\* mutant: the fully diluted value is not looked at
MarketCapOf_noFdv(pair) == OrZero(pair.marketCap)

\* pair.marketCap || pair.fdv || 0
MarketCapOf(pair) ==
  IF OrZero(pair.marketCap) # 0 THEN pair.marketCap[1] ELSE OrZero(pair.fdv)

\* mutant: the minimum-age test is left out
PairPasses_noMinAge(pair, t) ==
  IF pair.name = "" \/ pair.symbol = "" THEN FALSE
  ELSE IF ToUpperCase(pair.symbol) \in BLOCKED_SYMBOLS THEN FALSE
  ELSE IF BlockedName(pair.name) THEN FALSE
  ELSE IF OrZero(pair.pairCreatedAt) = 0 THEN FALSE
  ELSE LET age == t - pair.pairCreatedAt[1]
       IN IF age > MaxPairAgeDays * 24 * Hour THEN FALSE
          ELSE IF OrZero(pair.liquidityUsd) < MinLiquidityUsd THEN FALSE
          ELSE IF OrZero(pair.volumeH24) < MinVolumeUsd THEN FALSE
          ELSE IF MarketCapOf(pair) > MAX_MCAP_FOR_NEW_LAUNCH THEN FALSE
          ELSE TRUE

\* the callback of pairs.filter in filterValidPairs, with now = Date.now()
PairPasses(pair, t) ==
  IF pair.name = "" \/ pair.symbol = "" THEN FALSE
  ELSE IF ToUpperCase(pair.symbol) \in BLOCKED_SYMBOLS THEN FALSE
  ELSE IF BlockedName(pair.name) THEN FALSE
  ELSE IF OrZero(pair.pairCreatedAt) = 0 THEN FALSE
  ELSE LET age == t - pair.pairCreatedAt[1]
       IN IF age < MinPairAgeMinutes THEN FALSE
          ELSE IF age > MaxPairAgeDays * 24 * Hour THEN FALSE
          ELSE IF OrZero(pair.liquidityUsd) < MinLiquidityUsd THEN FALSE
          ELSE IF OrZero(pair.volumeH24) < MinVolumeUsd THEN FALSE
          ELSE IF MarketCapOf(pair) > MAX_MCAP_FOR_NEW_LAUNCH THEN FALSE
          ELSE TRUE

FilterValidPairs(pairs, t) == SelectSeq(pairs, LAMBDA pair : PairPasses(pair, t))

\* candidate pairs: baseToken name and symbol ("" when missing), creation
\* time, liquidity.usd, volume.h24, marketCap and fdv around each limit
FilterPairInputs(t) ==
  [name : {"", "Alpha", "Wrapped Ether"},
   symbol : {"", "ALPHA", "weth"},
   pairCreatedAt : {<<>>, <<t + 10>>, <<t - 2>>, <<t - MinPairAgeMinutes>>, <<t - Hour>>,
                    <<t - MaxPairAgeDays * 24 * Hour>>,
                    <<t - (MaxPairAgeDays + 1) * 24 * Hour>>},
   liquidityUsd : {<<>>, <<MinLiquidityUsd - 1>>, <<MinLiquidityUsd>>},
   volumeH24 : {<<>>, <<MinVolumeUsd - 1>>, <<MinVolumeUsd>>},
   marketCap : {<<>>, <<0>>, <<MAX_MCAP_FOR_NEW_LAUNCH>>, <<MAX_MCAP_FOR_NEW_LAUNCH + 1>>},
   fdv : {<<>>, <<MinLiquidityUsd>>, <<MAX_MCAP_FOR_NEW_LAUNCH + 1>>}]

\* a pair that passes every test
GoodPair(t) ==
  [name |-> "Alpha", symbol |-> "ALPHA", pairCreatedAt |-> <<t - Hour>>,
   liquidityUsd |-> <<MinLiquidityUsd>>, volumeH24 |-> <<MinVolumeUsd>>,
   marketCap |-> <<MAX_MCAP_FOR_NEW_LAUNCH>>, fdv |-> <<>>]

InitFilter ==
  /\ InitStore /\ InitAlerts /\ InitEvalIdle /\ InitDiscIdle
  /\ InitGateIdle /\ InitRetryIdle /\ InitQueryIdle /\ InitPollerIdle
  /\ InitHarnessIdle
  /\ \E pair \in FilterPairInputs(TimeBase) :
       filt = [pairs |-> <<pair, GoodPair(TimeBase)>>, out |-> <<>>, done |-> FALSE]

\* dexScreenerService.filterValidPairs(pairs)
FilterValidPairsCall ==
  /\ ~filt.done
  /\ filt.pairs # <<>>
  /\ filt' = [filt EXCEPT !.out = FilterValidPairs(filt.pairs, now), !.done = TRUE]
  /\ UNCHANGED <<now, launches, lastOp, alerts, nextAlertId, watchlist, checkInterval, timers,
                 nextTimer, runs, sent, matched, lastDelivery, evalIn, evalOut, disc,
                 gate, retry, query, poller, harnessVars>>

NextFilter == FilterValidPairsCall

SpecFilter == InitFilter /\ [][NextFilter]_vars

InOutput(pair) == \E k \in 1..Len(filt.out) : filt.out[k] = pair

\* C16: a pair whose liquidity (0 when missing) is below the minimum is not in
\* the output of filterValidPairs, and neither is a pair whose market cap, or
\* fully diluted value when it has no market cap, is above 50,000,000,
\* whatever the pair's other fields are.
C16_FilterMonotone ==
  filt.done =>
    \A k \in 1..Len(filt.pairs) :
      LET pair == filt.pairs[k]
          liquidity == IF pair.liquidityUsd = <<>> THEN 0 ELSE pair.liquidityUsd[1]
          cap == IF pair.marketCap # <<>> THEN pair.marketCap[1]
                 ELSE IF pair.fdv # <<>> THEN pair.fdv[1] ELSE 0
      IN /\ liquidity < MinLiquidityUsd => ~InOutput(pair)
         /\ cap > 50000000 => ~InOutput(pair)

\* a pair with nothing against it but a fully diluted value above the ceiling
\* and no market cap was filtered out while the pair next to it was kept
C16_Witness ==
  /\ filt.done
  /\ filt.pairs[1] = [GoodPair(TimeBase) EXCEPT !.marketCap = <<>>,
                        !.fdv = <<MAX_MCAP_FOR_NEW_LAUNCH + 1>>]
  /\ filt.out = <<GoodPair(TimeBase)>>

(***************************************************************************)
(* Reads of the launches table and the poll's writes                       *)
(***************************************************************************)
\* mutant: WHERE last_updated >= cutoff
LaunchesSince_lastUpdated(T, cutoffTime) ==
  {i \in 1..Len(T) : T[i].lastUpdated >= cutoffTime}

\* WHERE pair_created_at >= cutoff: the row numbers selected
LaunchesSince(T, cutoffTime) ==
  {i \in 1..Len(T) : T[i].pairCreatedAt >= cutoffTime}

\* the ORDER BY expression of getLaunches for sortBy; NULLS LAST has no row
\* to act on, pairToLaunch writes 0 for a missing market cap or volume
OrderKey(sortBy, r) ==
  CASE sortBy = "mcap" -> r.marketCap
    [] sortBy = "age" -> r.pairCreatedAt
    [] OTHER -> r.volume24h

\* mutant: the price change is left out of the score
TrendingKey_volumeOnly(r) == r.volume24h

\* ORDER BY volume_24h * ABS(COALESCE(price_change_24h, 0) + 1); no stored
\* row has a NULL price_change_24h, pairToLaunch writes 0 for a missing one
TrendingKey(r) == r.volume24h * Abs(r.priceChange24h + 1)

\* the orders SQLite may give the selected rows: descending in the key keyOf
\* of each row number, rows with equal keys in any order
DescendingOrders(rows, keyOf) ==
  {p \in [1..Cardinality(rows) -> rows] :
     /\ \A a, b \in 1..Cardinality(rows) : a # b => p[a] # p[b]
     /\ \A a, b \in 1..Cardinality(rows) : a < b => keyOf[p[a]] >= keyOf[p[b]]}

\* mutant: the limit is applied before the ordering
OrderedLimited_limitFirst(T, rows, keyOf, limit) ==
  LET n == IF limit < Cardinality(rows) THEN limit ELSE Cardinality(rows)
  IN UNION {{[k \in 1..n |-> T[p[k]]] : p \in DescendingOrders(some, keyOf)} :
              some \in {c \in SUBSET rows : Cardinality(c) = n}}

\* ... ORDER BY key DESC LIMIT limit: the possible results
OrderedLimited(T, rows, keyOf, limit) ==
  LET n == IF limit < Cardinality(rows) THEN limit ELSE Cardinality(rows)
  IN {[k \in 1..n |-> T[p[k]]] : p \in DescendingOrders(rows, keyOf)}

\* store.getLaunches(timeframeHours, sortBy, limit) at time t
GetLaunches(T, timeframeHours, sortBy, limit, t) ==
  OrderedLimited(T, LaunchesSince(T, t - timeframeHours * Hour),
                 [i \in 1..Len(T) |-> OrderKey(sortBy, T[i])], limit)

\* store.getTrendingLaunches(limit) at time t
GetTrendingLaunches(T, limit, t) ==
  LET rows == {i \in LaunchesSince(T, t - 24 * Hour) :
                 T[i].volume24h > 0 /\ T[i].liquidityUsd > 0}
  IN OrderedLimited(T, rows, [i \in 1..Len(T) |-> TrendingKey(T[i])], limit)

\* four pools aged 10 minutes, 2, 10 and 30 hours at TimeBase; the third and
\* the fourth are pools of one token, the fourth with the larger volume; the
\* third lost its whole price in 24 hours (priceChange.h24 = -100); the first
\* came without marketCap, fdv and priceChange.h24, which pairToLaunch stores
\* as 0
QueryLaunch(k, t) ==
  [MkLaunch(<<"0xq1", "0xq2", "0xq3", "0xq4">>[k], 1, <<1, 3, 2, 2>>[k], t)
     EXCEPT !.tokenAddress = <<"0xt1", "0xt2", "0xt3", "0xt3">>[k],
            !.pairCreatedAt = TimeBase - <<10, 2 * Hour, 10 * Hour, 30 * Hour>>[k],
            !.marketCap = <<0, 3000, 2000, 2000>>[k],
            !.volume24h = <<10, 30, 20, 25>>[k],
            !.priceChange24h = <<0, 15, -100, 10>>[k]]

\* the launches a poll hands to upsertLaunches: none, all four pools, some of
\* them, or one that the INSERT rejects
PollBatches(t) ==
  { <<>>,
    <<QueryLaunch(1, t), QueryLaunch(2, t), QueryLaunch(3, t), QueryLaunch(4, t)>>,
    <<QueryLaunch(4, t), QueryLaunch(1, t)>>,
    <<QueryLaunch(3, t)>>,
    <<BadLaunch("0xq2", t)>> }

QueryUnchanged ==
  UNCHANGED <<now, lastOp, alerts, nextAlertId, watchlist, checkInterval, timers, nextTimer,
              runs, sent, matched, lastDelivery, evalIn, evalOut, disc,
              gate, retry, filt, poller, harnessVars>>

\* a command handler calls store.getLaunches(timeframeHours, sortBy, limit)
GetLaunchesCall ==
  /\ \E timeframeHours \in {6, 24}, sortBy \in {"volume", "mcap", "age"},
        limit \in {1, 2, 10} :
       \E result \in GetLaunches(launches, timeframeHours, sortBy, limit, now) :
         query' = [QueryIdle EXCEPT !.kind = "getLaunches", !.at = now,
                                    !.timeframeHours = timeframeHours,
                                    !.sortBy = sortBy, !.limit = limit,
                                    !.result = result,
                                    !.prunedBefore = query.prunedBefore]
  /\ UNCHANGED launches
  /\ QueryUnchanged

\* store.getLaunchByToken(tokenAddress)
GetLaunchByTokenCall ==
  /\ \E tokenAddress \in {"0xt1", "0xt2", "0xT3"} :
       query' = [QueryIdle EXCEPT !.kind = "getLaunchByToken", !.at = now,
                                  !.tokenAddress = tokenAddress,
                                  !.result = GetLaunchByToken(launches, tokenAddress),
                                  !.prunedBefore = query.prunedBefore]
  /\ UNCHANGED launches
  /\ QueryUnchanged

\* store.getTrendingLaunches(limit); the trending command asks for 10
GetTrendingLaunchesCall ==
  /\ \E limit \in {2, 10} :
     \E result \in GetTrendingLaunches(launches, limit, now) :
       query' = [QueryIdle EXCEPT !.kind = "getTrendingLaunches", !.at = now,
                                  !.limit = limit, !.result = result,
                                  !.prunedBefore = query.prunedBefore]
  /\ UNCHANGED launches
  /\ QueryUnchanged

\* the writes of a poll tick: upsertLaunches(launches), then
\* pruned = pruneOldLaunches(48) unless the upsert threw
PollWrite ==
  /\ \E batch \in PollBatches(now) :
       LET threw == UpsertLaunchesThrows(launches, batch)
           cutoffTime == now - 48 * Hour
       IN /\ launches' = PollStore(launches, batch, now)
          /\ query' = [QueryIdle EXCEPT
               !.kind = "poll", !.at = now, !.batch = batch,
               !.changes = IF threw THEN 0
                           ELSE Len(UpsertLaunches(launches, batch)) - Len(launches'),
               !.prunedBefore = IF threw \/ cutoffTime < query.prunedBefore
                                THEN query.prunedBefore ELSE cutoffTime]
  /\ QueryUnchanged

InitQuery ==
  /\ InitStore /\ InitAlerts /\ InitEvalIdle /\ InitDiscIdle /\ InitServicesIdle

NextQuery ==
  \/ GetLaunchesCall
  \/ GetLaunchByTokenCall
  \/ GetTrendingLaunchesCall
  \/ PollWrite
  \/ AdvanceClock

SpecQuery == InitQuery /\ [][NextQuery]_vars

RowsIn(result) == {result[k] : k \in 1..Len(result)}

\* C17: the result of getLaunches holds only launches created at or after
\* now - timeframeHours, and all of them when they are at most limit.
C17_TimeframeQuery ==
  query.kind = "getLaunches" /\ query.at = now =>
    LET cutoffTime == query.at - query.timeframeHours * Hour
        recent == {r \in RowsIn(launches) : r.pairCreatedAt >= cutoffTime}
    IN /\ \A r \in RowsIn(query.result) :
            r \in RowsIn(launches) /\ r.pairCreatedAt >= cutoffTime
       /\ Cardinality(recent) <= query.limit =>
            /\ RowsIn(query.result) = recent
            /\ Len(query.result) = Cardinality(recent)

\* launches aged 10 min, 2 h, 10 h and 30 h are stored and
\* getLaunches(6, 'volume', 10) returned the 2 h and the 10 min launch
C17_Witness ==
  /\ query.kind = "getLaunches" /\ query.at = TimeBase
  /\ query.timeframeHours = 6 /\ query.sortBy = "volume" /\ query.limit = 10
  /\ {r.pairCreatedAt : r \in RowsIn(launches)}
       = {TimeBase - 10, TimeBase - 2 * Hour, TimeBase - 10 * Hour, TimeBase - 30 * Hour}
  /\ Len(query.result) = 2
  /\ query.result[1].pairAddress = "0xq2" /\ query.result[2].pairAddress = "0xq1"

PollStep ==
  /\ query'.kind = "poll"
  /\ now' = now
  /\ query' # query \/ launches' # launches

\* C18: a prune removes exactly the launches created before now - maxAgeHours,
\* keeps the others as they are and returns the number removed; no launch
\* created before the cutoff of a prune is in the table after it or in the
\* result of a later getLaunches, getLaunchByToken or getTrendingLaunches.
C18_Pruning ==
  [][/\ (PollStep /\ query'.batch = <<>>) =>
          /\ launches' = SelectSeq(launches, LAMBDA r : r.pairCreatedAt >= now - 48 * Hour)
          /\ query'.changes = Len(launches) - Len(launches')
     /\ (PollStep /\ ~AnyThrows(query'.batch)) =>
          \A r \in RowsIn(launches') : r.pairCreatedAt >= now - 48 * Hour
     /\ query'.kind \in {"getLaunches", "getLaunchByToken", "getTrendingLaunches"} =>
          \A r \in RowsIn(query'.result) : r.pairCreatedAt >= query'.prunedBefore]_vars

\* a poll without valid pairs pruned three of four stored launches
C18_Witness ==
  /\ query.kind = "poll" /\ query.batch = <<>>
  /\ query.changes = 3
  /\ Len(launches) = 1
  /\ query.prunedBefore = now - 48 * Hour

(***************************************************************************)
(* TokenTracker: startPolling, stopPolling and the poll timer              *)
(***************************************************************************)
PollerUnchanged ==
  UNCHANGED <<now, lastOp, alerts, nextAlertId, watchlist, checkInterval, timers,
              nextTimer, runs, sent, matched, lastDelivery, evalIn, evalOut, disc,
              gate, retry, filt, query, harnessVars>>

\* tokenTracker.startPolling() up to its await: return if isPolling, else set
\* the flag and start the initial poll
StartPolling ==
  /\ poller' =
       IF poller.isPolling
       THEN [poller EXCEPT !.lastCall = "startIgnored"]
       ELSE [poller EXCEPT !.isPolling = TRUE, !.starting = @ + 1,
                           !.stopped = FALSE, !.lastCall = "start"]
  /\ poller.isPolling \/ poller.nextTimer + poller.starting <= MaxPollStarts
  /\ UNCHANGED launches
  /\ PollerUnchanged

\* the call of poll() that throws, if one does; a throwing upsertLaunches is
\* the batch with a row the INSERT rejects
PollFailures == {"none", "fetchBasePairs", "filterValidPairs", "pruneOldLaunches"}

\* poll's try block ended in its catch
PollFailed(T, batch, failure) == failure # "none" \/ UpsertLaunchesThrows(T, batch)

\* the table after poll(): a throw before the upsert leaves it untouched, a
\* throw of the prune leaves the upsert done
PollRest(T, batch, failure, t) ==
  CASE failure \in {"fetchBasePairs", "filterValidPairs"} -> T
    [] failure = "pruneOldLaunches" -> UpsertLaunches(T, batch)
    [] OTHER -> PollStore(T, batch, t)

\* mutant: an error of poll() is caught nowhere and ends the process
TimersAfterPoll_uncaught(live, failed) == IF failed THEN {} ELSE live

\* poll's catch logs the error and returns; no timer is touched
TimersAfterPoll(live, failed) == live

\* poll() returns: the state of the tracker and of the table after it
PollSettles(p) ==
  \E batch \in PollBatches(now), failure \in PollFailures :
    LET failed == PollFailed(launches, batch, failure)
    IN /\ launches' = PollRest(launches, batch, failure, now)
       /\ poller' = [p EXCEPT !.timers = TimersAfterPoll(@, failed),
                              !.lastPoll = IF failed THEN "failed" ELSE "ok"]

\* the initial poll of a startPolling call ends and the call resumes after
\* its await: this.pollInterval = setInterval(...)
InitialPollSettles ==
  /\ poller.starting > 0
  /\ PollSettles([poller EXCEPT !.starting = @ - 1,
                                !.pollInterval = poller.nextTimer,
                                !.timers = @ \cup {poller.nextTimer},
                                !.nextTimer = @ + 1])
  /\ PollerUnchanged

\* tokenTracker.stopPolling()
StopPolling ==
  /\ poller' = [poller EXCEPT
       !.timers = IF poller.pollInterval # NoTimer
                  THEN @ \ {poller.pollInterval} ELSE @,
       !.pollInterval = NoTimer,
       !.isPolling = FALSE,
       !.stopped = TRUE,
       !.lastCall = "stop"]
  /\ UNCHANGED launches
  /\ PollerUnchanged

\* a setInterval callback of the tracker fires: this.poll() starts
PollTimerFire ==
  /\ poller.timers # {}
  /\ poller.ticks < MaxTicks
  /\ poller' = [poller EXCEPT !.ticks = @ + 1, !.firedAfter = poller.lastPoll]
  /\ UNCHANGED launches
  /\ PollerUnchanged

\* a poll tick started by the timer ends
PollTickSettles ==
  /\ poller.ticks > 0
  /\ PollSettles([poller EXCEPT !.ticks = @ - 1])
  /\ PollerUnchanged

InitPoller ==
  /\ InitStore /\ InitAlerts /\ InitEvalIdle /\ InitDiscIdle /\ InitServicesIdle

NextPoller ==
  \/ StartPolling
  \/ InitialPollSettles
  \/ StopPolling
  \/ PollTimerFire
  \/ PollTickSettles

SpecPoller == InitPoller /\ [][NextPoller]_vars

\* C19: whatever startPolling and stopPolling calls are made, at most one poll
\* interval timer exists.
C19_SinglePollTimer == Cardinality(poller.timers) <= 1

\* C20: from the return of stopPolling until the next startPolling no poll
\* tick starts and no interval timer is scheduled.
C20_StopPreventsTicks ==
  [][(poller.stopped /\ poller'.stopped)
       => /\ poller'.timers = {}
          /\ poller'.ticks <= poller.ticks]_vars

\* C21: ticks of one schedule never overlap: in no reachable state are two
\* executions of TokenTracker.poll started by the interval timer in progress at
\* the same time (and likewise no two of AlertChecker.checkAlerts), however
\* long a tick's work takes.
C21_TicksNeverOverlap == poller.ticks <= 1

\* C22: an exception raised inside a poll tick is caught inside that tick and
\* does not stop the schedule: a failing tick leaves the interval timer, the
\* handle and the Polling flag as they were, and while the poller is Polling
\* after a failed tick its timer is live and can fire the next tick.
C22_FailedTickKeepsSchedule ==
  /\ [][(poller'.lastPoll = "failed" /\ poller'.ticks < poller.ticks)
          => /\ poller'.timers = poller.timers
             /\ poller'.pollInterval = poller.pollInterval
             /\ poller'.isPolling = poller.isPolling]_vars
  /\ [](poller.lastPoll = "failed" /\ poller.isPolling /\ poller.pollInterval # NoTimer
          => /\ poller.pollInterval \in poller.timers
             /\ poller.ticks < MaxTicks => ENABLED PollTimerFire)

\* a tick failed, and the timer fired the next tick afterwards
C22_Witness ==
  /\ poller.isPolling
  /\ poller.lastPoll = "failed"
  /\ poller.firedAfter = "failed"
  /\ poller.ticks = 1

(***************************************************************************)
(* formatPercent and the trending ranking                                  *)
(***************************************************************************)
\* `${sign}${value.toFixed(2)}%`: the sign written before a non-negative
\* value, the value in hundredths, the suffix
FormatPercent(value) == <<IF value >= 0 THEN "+" ELSE "", 100 * value, "%">>

\* the text shown for a launch that lost its whole price: "-100.00%"
MinusHundredPercent == <<"", -10000, "%">>

\* position of a row in a result
PositionIn(result, r) == CHOOSE k \in 1..Len(result) : result[k] = r

\* C23: in the trending ranking a launch whose 24h price change is -100% (as
\* displayed) has trending score zero, so it ranks below every eligible launch
\* with a non-zero score.
C23_CollapsedRanksLast ==
  query.kind = "getTrendingLaunches" =>
    \A r \in RowsIn(query.result) :
      FormatPercent(r.priceChange24h) = MinusHundredPercent =>
        /\ TrendingKey(r) = 0
        /\ \A s \in RowsIn(query.result) :
             TrendingKey(s) # 0 => PositionIn(query.result, s) < PositionIn(query.result, r)

\* two addresses that differ at most in the case of their letters
SameAddress(a, b) == ToLowerCase(a) = ToLowerCase(b)

\* the stored pools of a token, whatever the letter case of the argument
PoolsOf(T, tokenAddress) ==
  {r \in RowsIn(T) : SameAddress(r.tokenAddress, tokenAddress)}

\* C24: getLaunchByToken(tokenAddress) returns none when no stored launch has
\* that token address, and otherwise a stored launch of that token whose
\* volume24h is maximal among all stored pools of the token; the letter case
\* of the argument does not matter.
C24_LaunchByToken ==
  query.kind = "getLaunchByToken" =>
    LET pools == PoolsOf(launches, query.tokenAddress)
    IN IF pools = {} THEN query.result = <<>>
       ELSE /\ Len(query.result) = 1
            /\ query.result[1] \in pools
            /\ \A r \in pools : r.volume24h <= query.result[1].volume24h

\* the token was asked for in upper case, has two stored pools, and the pool
\* returned is the later row, with the larger volume
C24_Witness ==
  /\ query.kind = "getLaunchByToken"
  /\ query.tokenAddress = "0xT3"
  /\ Cardinality(PoolsOf(launches, "0xt3")) = 2
  /\ Len(query.result) = 1
  /\ query.result[1].pairAddress = "0xq4"
  /\ launches[Len(launches)] = query.result[1]

(***************************************************************************)
(* !alert <contract> <condition>: isValidAddress, parseCondition,          *)
(* createAlert                                                             *)
(*                                                                         *)
(* The arguments of a command are texts; a text is named by a string and   *)
(* spelled out, character by character, by AddressText and ConditionText.  *)
(***************************************************************************)
Repeat(c, n) == [i \in 1..n |-> c]

Digits == {"0", "1", "2", "3", "4", "5", "6", "7", "8", "9"}
HexDigits == Digits \cup {"a", "b", "c", "d", "e", "f", "A", "B", "C", "D", "E", "F"}

DigitValue(c) ==
  CASE c = "0" -> 0 [] c = "1" -> 1 [] c = "2" -> 2 [] c = "3" -> 3 [] c = "4" -> 4
    [] c = "5" -> 5 [] c = "6" -> 6 [] c = "7" -> 7 [] c = "8" -> 8 [] c = "9" -> 9

\* contract arguments: 40 hex digits in upper and in lower case, 40 digits
\* that are not hex, 39 and 41 hex digits, an upper-case prefix, no prefix
AddressSamples == {"0xA", "0xa", "0xG", "0xA39", "0xA41", "0XA", "A"}

AddressText(address) ==
  CASE address = "0xA" -> <<"0", "x">> \o Repeat("A", 40)
    [] address = "0xa" -> <<"0", "x">> \o Repeat("a", 40)
    [] address = "0xG" -> <<"0", "x">> \o Repeat("G", 40)
    [] address = "0xA39" -> <<"0", "x">> \o Repeat("A", 39)
    [] address = "0xA41" -> <<"0", "x">> \o Repeat("A", 41)
    [] address = "0XA" -> <<"0", "X">> \o Repeat("A", 40)
    [] address = "A" -> Repeat("A", 40)

\* mutant: the pattern without its end anchor, /^0x[a-fA-F0-9]{40}/
IsValidAddress_unanchored(address) ==
  LET c == AddressText(address)
  IN /\ Len(c) >= 42
     /\ c[1] = "0" /\ c[2] = "x"
     /\ \A i \in 3..42 : c[i] \in HexDigits

\* /^0x[a-fA-F0-9]{40}$/.test(address)
IsValidAddress(address) ==
  LET c == AddressText(address)
  IN /\ Len(c) = 42
     /\ c[1] = "0" /\ c[2] = "x"
     /\ \A i \in 3..42 : c[i] \in HexDigits

\* condition arguments, as joined by args.slice(1).join('')
ConditionSamples ==
  {"price>0.5", "PRICE > 1", "mcap<1000", "vol>=50", "volume<=7", "marketcap>2",
   "price=1", "price>-1", "liq>5", "price>", "price>1.2.3", "price>>1"}

ConditionText(condition) ==
  CASE condition = "price>0.5" -> <<"p", "r", "i", "c", "e", ">", "0", ".", "5">>
    [] condition = "PRICE > 1" -> <<"P", "R", "I", "C", "E", " ", ">", " ", "1">>
    [] condition = "mcap<1000" -> <<"m", "c", "a", "p", "<", "1", "0", "0", "0">>
    [] condition = "vol>=50" -> <<"v", "o", "l", ">", "=", "5", "0">>
    [] condition = "volume<=7" -> <<"v", "o", "l", "u", "m", "e", "<", "=", "7">>
    [] condition = "marketcap>2" ->
         <<"m", "a", "r", "k", "e", "t", "c", "a", "p", ">", "2">>
    [] condition = "price=1" -> <<"p", "r", "i", "c", "e", "=", "1">>
    [] condition = "price>-1" -> <<"p", "r", "i", "c", "e", ">", "-", "1">>
    [] condition = "liq>5" -> <<"l", "i", "q", ">", "5">>
    [] condition = "price>" -> <<"p", "r", "i", "c", "e", ">">>
    [] condition = "price>1.2.3" -> <<"p", "r", "i", "c", "e", ">", "1", ".", "2", ".", "3">>
    [] condition = "price>>1" -> <<"p", "r", "i", "c", "e", ">", ">", "1">>

\* String.prototype.toLowerCase on one character
LowerChar(c) ==
  CASE c = "P" -> "p" [] c = "R" -> "r" [] c = "I" -> "i" [] c = "C" -> "c"
    [] c = "E" -> "e" [] OTHER -> c

\* input.replace(/\s/g, '').toLowerCase()
Cleaned(input) ==
  LET kept == SelectSeq(input, LAMBDA c : c # " ")
  IN [i \in 1..Len(kept) |-> LowerChar(kept[i])]

\* the alternatives of the first group and the type each selects
TypeWords ==
  {<<"p", "r", "i", "c", "e">>, <<"m", "c", "a", "p">>, <<"v", "o", "l">>,
   <<"v", "o", "l", "u", "m", "e">>, <<"m", "a", "r", "k", "e", "t", "c", "a", "p">>}

TypeOf(word) ==
  CASE word = <<"p", "r", "i", "c", "e">> -> "price"
    [] word \in {<<"m", "c", "a", "p">>,
                 <<"m", "a", "r", "k", "e", "t", "c", "a", "p">>} -> "mcap"
    [] word \in {<<"v", "o", "l">>, <<"v", "o", "l", "u", "m", "e">>} -> "volume"
    [] OTHER -> Null

\* the switch on match[2]
OperatorOf(op) ==
  CASE op \in {<<">">>, <<">", "=">>} -> ">"
    [] op \in {<<"<">>, <<"<", "=">>} -> "<"
    [] op = <<"=">> -> "="
    [] OTHER -> Null

\* mutant: [><=]=? , a pattern that lets a bare '=' through
IsOperatorText_withEquals(op) ==
  /\ Len(op) \in {1, 2}
  /\ op[1] \in {">", "<", "="}
  /\ Len(op) = 2 => op[2] = "="

\* [><]=?
IsOperatorText(op) ==
  /\ Len(op) \in {1, 2}
  /\ op[1] \in {">", "<"}
  /\ Len(op) = 2 => op[2] = "="

\* \d+\.?\d* : the number of digits before the point, or 0 if text is no number
IntegerDigits(text) ==
  LET ks == {k \in 1..Len(text) :
               /\ \A i \in 1..k : text[i] \in Digits
               /\ \/ k = Len(text)
                  \/ /\ text[k + 1] = "."
                     /\ \A i \in (k + 2)..Len(text) : text[i] \in Digits}
  IN IF ks = {} THEN 0 ELSE CHOOSE k \in ks : \A j \in ks : j <= k

RECURSIVE DigitsValue(_)
DigitsValue(ds) ==
  IF ds = <<>> THEN 0
  ELSE 10 * DigitsValue(SubSeq(ds, 1, Len(ds) - 1)) + DigitValue(ds[Len(ds)])

\* parseFloat(match[3]), in tenths; digits after the first decimal are dropped
ParseFloat(text) ==
  LET k == IntegerDigits(text)
  IN 10 * DigitsValue(SubSeq(text, 1, k))
       + (IF Len(text) >= k + 2 THEN DigitValue(text[k + 2]) ELSE 0)

\* the ways cleaned splits into the three groups of the pattern
Matches(cleaned) ==
  {m \in [word : TypeWords, opLen : {1, 2}] :
     LET w == Len(m.word)
     IN /\ Len(cleaned) > w + m.opLen
        /\ SubSeq(cleaned, 1, w) = m.word
        /\ IsOperatorText(SubSeq(cleaned, w + 1, w + m.opLen))
        /\ IntegerDigits(SubSeq(cleaned, w + m.opLen + 1, Len(cleaned))) > 0}

\* parseCondition(input): <<condition>>, or <<>> for null
ParseCondition(input) ==
  LET cleaned == Cleaned(input)
      ms == Matches(cleaned)
  IN IF ms = {} THEN <<>>
     ELSE LET m == CHOOSE x \in ms : TRUE
              w == Len(m.word)
              type == TypeOf(m.word)
              operator == OperatorOf(SubSeq(cleaned, w + 1, w + m.opLen))
              threshold == ParseFloat(SubSeq(cleaned, w + m.opLen + 1, Len(cleaned)))
          IN IF type = Null \/ operator = Null \/ threshold < 0 THEN <<>>
             ELSE <<[type |-> type, operator |-> operator, threshold |-> threshold]>>

CmdUnchanged ==
  UNCHANGED <<now, launches, lastOp, watchlist, checkInterval, timers, nextTimer, runs, sent,
              matched, lastDelivery, evalIn, evalOut, disc, gate, retry, filt,
              query, poller, check, tick, multi>>

\* createAlert(message, tokenAddress, conditionStr, store) of the alert
\* command, for arguments drawn from the given samples
CreateAlertFrom(addresses, conditions) ==
  \E u \in Users, address \in addresses, condition \in conditions :
    LET parsed == ParseCondition(ConditionText(condition))
        asked == [CmdIdle EXCEPT !.kind = "alert", !.userId = u,
                                 !.address = address, !.condition = condition,
                                 !.before = alerts]
    IN /\ nextAlertId <= MaxCommands
       /\ IF ~IsValidAddress(address)
          THEN /\ cmd' = [asked EXCEPT !.reply = "invalidAddress"]
               /\ UNCHANGED <<alerts, nextAlertId>>
          ELSE IF parsed = <<>>
          THEN /\ cmd' = [asked EXCEPT !.reply = "help"]
               /\ UNCHANGED <<alerts, nextAlertId>>
          ELSE /\ alerts' = CreateAlert(alerts, nextAlertId, u, address, parsed[1].type,
                                        parsed[1].operator, parsed[1].threshold, now)
               /\ nextAlertId' = nextAlertId + 1
               /\ cmd' = [asked EXCEPT !.reply = "created", !.alertId = nextAlertId]
       /\ CmdUnchanged

CreateAlertCommand == CreateAlertFrom(AddressSamples, ConditionSamples)

InitCmd ==
  /\ InitStore /\ InitAlerts /\ InitEvalIdle /\ InitDiscIdle /\ InitServicesIdle

NextCmd == CreateAlertCommand

SpecCmd == InitCmd /\ [][NextCmd]_vars

\* the sample arguments that are 0x followed by 40 hex digits, and the sample
\* conditions of the form <type><operator><number>
WellFormedAddresses == {"0xA", "0xa"}
WellFormedConditions ==
  {"price>0.5", "PRICE > 1", "mcap<1000", "vol>=50", "volume<=7", "marketcap>2"}

\* C25: the alert command creates an alert row only when the token address is
\* a well-formed 0x-prefixed 40-hex-digit address and the condition parses to a
\* conditionType in {price, volume, mcap}, an operator in {>, <, =} and a
\* threshold >= 0; on a malformed address or condition no alert is created and
\* the alerts table is unchanged.
C25_ValidatedCreation ==
  /\ cmd.reply = "created" =>
       /\ cmd.address \in WellFormedAddresses
       /\ cmd.condition \in WellFormedConditions
       /\ \E a \in alerts \ cmd.before :
            /\ alerts = cmd.before \cup {a}
            /\ a.id = cmd.alertId
            /\ a.conditionType \in {"price", "volume", "mcap"}
            /\ a.operator \in {">", "<", "="}
            /\ a.threshold >= 0
  /\ (cmd.reply # "none" /\ (cmd.address \notin WellFormedAddresses
                              \/ cmd.condition \notin WellFormedConditions)) =>
       alerts = cmd.before

\* an alert was created, and a later command with a contract of 41 hex digits
\* was refused
C25_Witness ==
  /\ cmd.reply = "invalidAddress"
  /\ cmd.address = "0xA41"
  /\ cmd.condition \in WellFormedConditions
  /\ Cardinality(alerts) = 1

\* C26: evaluateAlert compares the launch field named by conditionType (price:
\* priceUsd, volume: volume24h, mcap: marketCap) to the threshold; '>' matches
\* iff current is strictly greater and '<' iff strictly less, so current equal
\* to the threshold matches neither; an unknown conditionType or operator
\* never matches.
C26_StrictComparison ==
  evalOut # "none" =>
    LET a == evalIn.alert
        current == CASE a.conditionType = "price" -> evalIn.launch.priceUsd
                     [] a.conditionType = "volume" -> evalIn.launch.volume24h
                     [] a.conditionType = "mcap" -> evalIn.launch.marketCap
                     [] OTHER -> 0
    IN /\ (a.conditionType \notin {"price", "volume", "mcap"}
            \/ a.operator \notin {">", "<", "="}) => evalOut = "nomatch"
       /\ (a.conditionType \in {"price", "volume", "mcap"} /\ a.operator = ">")
            => (evalOut = "match" <=> current > a.threshold)
       /\ (a.conditionType \in {"price", "volume", "mcap"} /\ a.operator = "<")
            => (evalOut = "match" <=> current < a.threshold)

\* a volume alert '>' 100.0 on a launch whose volume is exactly 100.0 and
\* whose price and market cap are above it does not match
C26_Witness ==
  /\ evalOut = "nomatch"
  /\ evalIn.alert.conditionType = "volume"
  /\ evalIn.alert.operator = ">"
  /\ evalIn.alert.threshold = 1000
  /\ evalIn.launch.volume24h = 1000
  /\ evalIn.launch.priceUsd = 1010
  /\ evalIn.launch.marketCap = 1020

(***************************************************************************)
(* AlertChecker.checkAlerts, alert by alert: the try/catch around each     *)
(* alert of the batch.  A tick is observed when it starts, each time it    *)
(* resumes after await triggerAlert, and when it has ended; its log has    *)
(* one entry per alert the loop has reached.                               *)
(***************************************************************************)
\* the statement that throws for an alert, if one does: the SELECT of
\* getLaunchByToken or the UPDATE of markAlertTriggered
Faults == {"none", "lookup", "mark"}

\* the outcomes of an alert that entered the catch
FailureOutcomes == {"lookupFailed", "deliveryFailed", "markFailed"}

\* mutant: an alert without a stored launch is treated as a match
AlertOutcome_noLaunchMatches(alert, T, fault) ==
  IF fault = "lookup" THEN "lookupFailed"
  ELSE LET launch == GetLaunchByToken(T, alert.tokenAddress)
       IN IF Len(launch) = 0 THEN "matched"
          ELSE IF EvaluateAlert(alert, launch[1]) THEN "matched"
          ELSE "noMatch"

\* the body of the loop for one alert, up to await this.triggerAlert
AlertOutcome(alert, T, fault) ==
  IF fault = "lookup" THEN "lookupFailed"
  ELSE LET launch == GetLaunchByToken(T, alert.tokenAddress)
       IN IF Len(launch) = 0 THEN "noLaunch"
          ELSE IF EvaluateAlert(alert, launch[1]) THEN "matched"
          ELSE "noMatch"

\* mutant: one try/catch around the whole loop: a failure ends the tick
ContinueAfter_abort(outcome, i, n) ==
  IF outcome \in FailureOutcomes THEN n + 1 ELSE i + 1

\* the catch is inside the loop body: the loop goes on with the next alert
ContinueAfter(outcome, i, n) == i + 1

\* the log entries of the loop from alert i to its next await, or to its end
RECURSIVE ScanFrom(_, _, _, _)
ScanFrom(snap, faults, i, T) ==
  IF i > Len(snap) THEN <<>>
  ELSE LET o == AlertOutcome(snap[i], T, faults[i])
           entry == <<[k |-> i, outcome |-> o]>>
       IN IF o = "matched" THEN entry
          ELSE entry \o ScanFrom(snap, faults, ContinueAfter(o, i, Len(snap)), T)

\* the tick is suspended at await this.triggerAlert
Awaiting(log) == log # <<>> /\ log[Len(log)].outcome = "matched"

\* ids of the alerts a piece of the log skipped for want of a launch
SkippedIn(snap, log) ==
  {snap[log[j].k].id : j \in {x \in 1..Len(log) : log[x].outcome = "noLaunch"}}

CheckUnchanged ==
  UNCHANGED <<now, lastOp, nextAlertId, watchlist, checkInterval, timers, nextTimer, runs, sent,
              matched, lastDelivery, evalIn, evalOut, disc, gate, retry, filt,
              query, poller, cmd, tick, multi>>

\* checkAlerts() is called and runs to its first await or to its end
CheckBegin ==
  /\ check.pc = "idle"
  /\ check.ticks < MaxChecks
  /\ LET snap == GetActiveAlerts(alerts)
     IN \E faults \in [1..Len(snap) -> Faults] :
          LET log == ScanFrom(snap, faults, 1, launches)
          IN check' = [check EXCEPT
                         !.pc = IF Awaiting(log) THEN "deliver" ELSE "idle",
                         !.snap = snap, !.faults = faults, !.log = log,
                         !.ticks = @ + 1, !.notified = {},
                         !.skipped = SkippedIn(snap, log),
                         !.skippedBefore = check.skipped]
  /\ UNCHANGED <<alerts, launches>>
  /\ CheckUnchanged

\* await this.triggerAlert(alert, launch) returns or throws; then
\* markAlertTriggered, and the loop goes on to its next await or to its end
CheckDeliverySettles ==
  /\ check.pc = "deliver"
  /\ \E res \in {"ok", "unreachable", "error"} :
       LET n == Len(check.log)
           i == check.log[n].k
           alert == check.snap[i]
           o == IF TriggerAlertThrows(res) THEN "deliveryFailed"
                ELSE IF check.faults[i] = "mark" THEN "markFailed"
                ELSE "triggered"
           rest == ScanFrom(check.snap, check.faults,
                            ContinueAfter(o, i, Len(check.snap)), launches)
           log == [check.log EXCEPT ![n].outcome = o] \o rest
       IN /\ alerts' = IF o = "triggered" THEN MarkAlertTriggered(alerts, alert.id)
                       ELSE alerts
          /\ check' = [check EXCEPT
                         !.pc = IF Awaiting(log) THEN "deliver" ELSE "idle",
                         !.log = log,
                         !.notified = @ \cup {alert.id},
                         !.skipped = @ \cup SkippedIn(check.snap, rest)]
  /\ UNCHANGED launches
  /\ CheckUnchanged

\* launches a poll tick offers while alerts are checked
CheckLaunchInputs(t) ==
  {MkLaunch("0xp1", 1, mkt, t) : mkt \in 1..2} \cup {MkLaunch("0xp2", 2, 2, t)}

\* a poll tick writes the launches table
CheckPoll ==
  /\ \E batch \in SeqsUpTo(CheckLaunchInputs(now), 1) :
       launches' = PollStore(launches, batch, now)
  /\ UNCHANGED <<alerts, check>>
  /\ CheckUnchanged

\* the active alerts of the batch: alert k is on token tokens[k]
BatchAlerts(tokens) ==
  {[id |-> k, userId |-> "u1", tokenAddress |-> ToLowerCase(tokens[k]),
    conditionType |-> "price", operator |-> ">", threshold |-> 1,
    triggered |-> FALSE, createdAt |-> TimeBase] : k \in DOMAIN tokens}

InitCheck ==
  /\ InitStore /\ InitEvalIdle /\ InitDiscIdle /\ InitServicesIdle
  /\ \E tokens \in [1..MaxBatchAlerts -> {"0xA", "0xB"}] : alerts = BatchAlerts(tokens)
  /\ nextAlertId = MaxBatchAlerts + 1
  /\ watchlist = {}
  /\ checkInterval = NoTimer
  /\ timers = {}
  /\ nextTimer = 1
  /\ runs = [r \in RunIds |-> RunIdle]
  /\ sent = [id \in AlertIds |-> 0]
  /\ matched = {}
  /\ lastDelivery = NoDelivery

NextCheck ==
  \/ CheckBegin
  \/ CheckDeliverySettles
  \/ CheckPoll

SpecCheck == InitCheck /\ [][NextCheck]_vars

\* the log entries a step adds: all of them when the step starts a tick
NewEntries ==
  IF check'.ticks # check.ticks THEN 1..Len(check'.log)
  ELSE (Len(check.log) + 1)..Len(check'.log)

\* C27: during an alert-engine tick an active alert whose token has no stored
\* launch is skipped: no notification is sent for it, its triggered flag stays
\* false, it raises no error, and it is evaluated again on later ticks (the
\* alerts skipped in one tick are in the batch of the next).
C27_NoLaunchSkipped ==
  [][/\ \A j \in NewEntries :
          LET alert == check'.snap[check'.log[j].k]
          IN (/\ check'.faults[check'.log[j].k] # "lookup"
              /\ GetLaunchByToken(launches, alert.tokenAddress) = <<>>)
               => /\ check'.log[j].outcome = "noLaunch"
                  /\ alert.id \notin check'.notified
                  /\ alert \in alerts'
     /\ check'.ticks # check.ticks =>
          \A id \in check.skipped :
            \E k \in 1..Len(check'.snap) : check'.snap[k].id = id]_vars

\* an alert skipped for want of a launch in the first tick was triggered in
\* the second, once a poll had stored a launch of its token
C27_Witness ==
  /\ check.ticks = 2
  /\ check.pc = "idle"
  /\ \E j \in 1..Len(check.log) :
       /\ check.log[j].outcome = "triggered"
       /\ check.snap[check.log[j].k].id \in check.skippedBefore

\* C28: per-alert isolation: within one tick, a failure while evaluating,
\* delivering or marking one alert does not prevent any later alert of the
\* batch from being evaluated, and triggered if it matches, in that tick.
C28_PerAlertIsolation ==
  /\ \A j \in 1..Len(check.log) : check.log[j].k = j
  /\ check.pc = "idle" =>
       /\ Len(check.log) = Len(check.snap)
       /\ \A j \in 1..Len(check.log) :
            /\ check.log[j].outcome # "matched"
            /\ check.log[j].outcome = "triggered" =>
                 \A a \in alerts : a.id = check.snap[j].id => a.triggered

\* the first alert of the batch failed and the second was triggered in the
\* same tick
C28_Witness ==
  /\ check.pc = "idle"
  /\ Len(check.log) = 2
  /\ check.log[1].outcome \in FailureOutcomes
  /\ check.log[2].outcome = "triggered"

(***************************************************************************)
(* TokenTracker.poll, step by step: fetchBasePairs, filterValidPairs,      *)
(* pairToLaunch, upsertLaunches, pruneOldLaunches(48)                      *)
(***************************************************************************)
\* pairs fetchBasePairs can return: a fresh pair, a pair three days old (it
\* passes the filter and is older than the prune horizon), a pair with too
\* little liquidity, and a pair without baseToken.address
PollPair(k, t) ==
  [pairAddress |-> <<"0xP1", "0xP2", "0xp3", "0xp4">>[k],
   tokenAddress |-> <<"0xA", "0xB", "0xb", Null>>[k],
   name |-> "Alpha", symbol |-> "ALPHA", dexId |-> "uniswap", url |-> "url1",
   priceUsd |-> <<2>>, priceChangeH24 |-> <<>>,
   pairCreatedAt |-> << <<TimeBase - Hour>>, <<t - 3 * 24 * Hour>>, <<TimeBase - Hour>>,
                        <<TimeBase - Hour>> >>[k],
   liquidityUsd |-> << <<MinLiquidityUsd>>, <<MinLiquidityUsd>>, <<MinLiquidityUsd - 1>>,
                       <<MinLiquidityUsd>> >>[k],
   volumeH24 |-> <<MinVolumeUsd>>, marketCap |-> <<>>, fdv |-> <<MinLiquidityUsd>>]

PollResponses(t) == SeqsUpTo({PollPair(k, t) : k \in 1..4}, MaxPairs)

\* pair.baseToken.address.toLowerCase() on a missing address is a TypeError
PairToLaunchThrows(pair) == pair.tokenAddress = Null

\* dexScreenerService.pairToLaunch(pair), with t = Date.now()
PairToLaunch(pair, t) ==
  [pairAddress    |-> ToLowerCase(pair.pairAddress),
   tokenAddress   |-> ToLowerCase(pair.tokenAddress),
   name           |-> pair.name,
   symbol         |-> pair.symbol,
   dexId          |-> pair.dexId,
   priceUsd       |-> OrZero(pair.priceUsd),
   marketCap      |-> MarketCapOf(pair),
   volume24h      |-> OrZero(pair.volumeH24),
   liquidityUsd   |-> OrZero(pair.liquidityUsd),
   priceChange24h |-> OrZero(pair.priceChangeH24),
   pairCreatedAt  |-> IF OrZero(pair.pairCreatedAt) # 0 THEN pair.pairCreatedAt[1] ELSE t,
   dexscreenerUrl |-> pair.url,
   lastUpdated    |-> t]

TickUnchanged ==
  UNCHANGED <<now, lastOp, alerts, nextAlertId, watchlist, checkInterval, timers, nextTimer, runs,
              sent, matched, lastDelivery, evalIn, evalOut, disc, gate, retry, filt,
              query, poller, cmd, check, multi>>

\* poll() is called: it runs to await dexScreenerService.fetchBasePairs()
PollBegins ==
  /\ tick.pc = "idle"
  /\ tick.polls < MaxPolls
  /\ tick' = [TickIdle EXCEPT !.pc = "fetching", !.steps = <<"fetchBasePairs">>,
                              !.polls = tick.polls + 1]
  /\ UNCHANGED launches
  /\ TickUnchanged

\* fetchBasePairs() rejects: poll's catch is entered
PollFetchRejects ==
  /\ tick.pc = "fetching"
  /\ tick' = [tick EXCEPT !.pc = "idle"]
  /\ UNCHANGED launches
  /\ TickUnchanged

\* fetchBasePairs() resolves with pairs: the rest of poll() runs without
\* another await, up to its end or to the first statement that throws
PollResumes ==
  /\ tick.pc = "fetching"
  /\ \E pairs \in PollResponses(now) :
       LET validPairs == FilterValidPairs(pairs, now)
           batch == [k \in 1..Len(validPairs) |-> PairToLaunch(validPairs[k], now)]
       IN IF \E k \in 1..Len(validPairs) : PairToLaunchThrows(validPairs[k])
          THEN /\ tick' = [tick EXCEPT
                             !.pc = "idle", !.pairs = pairs, !.validPairs = validPairs,
                             !.steps = @ \o <<"filterValidPairs", "pairToLaunch">>]
               /\ UNCHANGED launches
          ELSE /\ tick' = [tick EXCEPT
                             !.pc = "idle", !.pairs = pairs, !.validPairs = validPairs,
                             !.launches = batch,
                             !.steps = @ \o
                               (IF UpsertLaunchesThrows(launches, batch)
                                THEN <<"filterValidPairs", "pairToLaunch", "upsertLaunches">>
                                ELSE <<"filterValidPairs", "pairToLaunch", "upsertLaunches",
                                       "pruneOldLaunches">>)]
               /\ launches' = PollStore(launches, batch, now)
  /\ TickUnchanged

InitPoll ==
  /\ InitStore /\ InitAlerts /\ InitEvalIdle /\ InitDiscIdle /\ InitServicesIdle

NextPoll ==
  \/ PollBegins
  \/ PollFetchRejects
  \/ PollResumes
  \/ AdvanceClock

SpecPoll == InitPoll /\ [][NextPoll]_vars

\* C29: within each poll tick the steps occur strictly in the order
\* fetchBasePairs, filterValidPairs, upsertLaunches, pruneOldLaunches(48); only
\* launches that passed the filter in that tick are upserted, and the prune
\* runs after the upsert of the same tick (a launch older than 48 hours that
\* the tick upserts is gone when the tick ends).
C29_PollOrder ==
  [][(tick.pc = "fetching" /\ tick'.pc = "idle") =>
       LET order == <<"fetchBasePairs", "filterValidPairs", "pairToLaunch",
                      "upsertLaunches", "pruneOldLaunches">>
           steps == tick'.steps
           passed == {k \in 1..Len(tick'.pairs) : PairPasses(tick'.pairs[k], now)}
       IN /\ Len(steps) <= Len(order)
          /\ steps = SubSeq(order, 1, Len(steps))
          /\ \A r \in RowsIn(launches') :
               \/ r \in RowsIn(launches)
               \/ \E k \in passed : r.pairAddress = ToLowerCase(tick'.pairs[k].pairAddress)
          /\ Len(steps) = Len(order) =>
               /\ \A r \in RowsIn(launches') : r.pairCreatedAt >= now - 48 * Hour
               /\ \A k \in passed :
                    tick'.pairs[k].pairCreatedAt[1] >= now - 48 * Hour =>
                      \E r \in RowsIn(launches') :
                        r.pairAddress = ToLowerCase(tick'.pairs[k].pairAddress)]_vars

\* a tick fetched a pair below the liquidity floor and a pair three days old:
\* the old one passed the filter, was upserted and pruned in the same tick,
\* and the table holds only the launch of the tick before
C29_Witness ==
  /\ tick.pc = "idle"
  /\ tick.polls = 2
  /\ Len(tick.steps) = 5
  /\ tick.pairs = <<PollPair(3, now), PollPair(2, now)>>
  /\ Len(tick.launches) = 1
  /\ tick.launches[1].pairAddress = "0xp2"
  /\ Len(launches) = 1
  /\ launches[1].pairAddress = "0xp1"

(***************************************************************************)
(* DexScreenerService.fetchMultipleTokens                                  *)
(***************************************************************************)
\* the batch size of fetchMultipleTokens
TokensPerRequest == 30

\* mutant: batches of slice(i, i + 31), still stepping by 30
Batches_overlap(tokenAddresses) ==
  LET n == Len(tokenAddresses)
      count == (n + TokensPerRequest - 1) \div TokensPerRequest
  IN [b \in 1..count |->
        SubSeq(tokenAddresses, TokensPerRequest * (b - 1) + 1,
               IF TokensPerRequest * b + 1 < n THEN TokensPerRequest * b + 1 ELSE n)]

\* for (i = 0; i < length; i += 30) batches.push(tokenAddresses.slice(i, i + 30))
Batches(tokenAddresses) ==
  LET n == Len(tokenAddresses)
      count == (n + TokensPerRequest - 1) \div TokensPerRequest
  IN [b \in 1..count |->
        SubSeq(tokenAddresses, TokensPerRequest * (b - 1) + 1,
               IF TokensPerRequest * b < n THEN TokensPerRequest * b ELSE n)]

\* what the request of a batch ends with: a pair for every address, a pair
\* for the first address only, a body that is no array, or an error that
\* retryWithBackoff gives up on
BatchOutcomes == {"all", "first", "notArray", "failed"}

\* the pairs the request of a batch contributes to allPairs
BatchPairs(batch, outcome) ==
  CASE outcome = "all" -> [k \in 1..Len(batch) |-> [tokenAddress |-> batch[k]]]
    [] outcome = "first" -> <<[tokenAddress |-> batch[1]]>>
    [] OTHER -> <<>>

MultiUnchanged ==
  UNCHANGED <<now, launches, lastOp, alerts, nextAlertId, watchlist, checkInterval, timers,
              nextTimer, runs, sent, matched, lastDelivery, evalIn, evalOut, disc,
              gate, retry, filt, query, poller, cmd, check, tick>>

\* fetchMultipleTokens(tokenAddresses) is called with n addresses (the k-th
\* address is written k): it returns [] at once, or builds the batches and
\* runs to the await of the first batch's request
FetchMultipleTokens ==
  /\ multi.pc = "idle"
  /\ \E n \in 0..MaxTokens :
       LET tokenAddresses == [k \in 1..n |-> k]
       IN multi' =
            IF n = 0 THEN [MultiIdle EXCEPT !.pc = "done"]
            ELSE [MultiIdle EXCEPT !.pc = "request",
                                   !.tokenAddresses = tokenAddresses,
                                   !.batches = Batches(tokenAddresses),
                                   !.requests = <<Batches(tokenAddresses)[1]>>,
                                   !.inFlight = 1]
  /\ MultiUnchanged

\* the awaited request of the current batch ends; the loop pushes its pairs
\* (or logs its error) and goes on to the next batch's request, or returns
BatchSettles ==
  /\ multi.pc = "request"
  /\ \E outcome \in BatchOutcomes :
       LET b == Len(multi.requests)
           pairs == BatchPairs(multi.batches[b], outcome)
           allPairs == multi.allPairs \o pairs
       IN multi' =
            IF b < Len(multi.batches)
            THEN [multi EXCEPT !.responses = Append(@, pairs),
                               !.allPairs = allPairs,
                               !.requests = Append(@, multi.batches[b + 1]),
                               !.inFlight = @ - 1 + 1]
            ELSE [multi EXCEPT !.pc = "done",
                               !.responses = Append(@, pairs),
                               !.allPairs = allPairs,
                               !.inFlight = @ - 1,
                               !.result = allPairs]
  /\ MultiUnchanged

InitMulti ==
  /\ InitStore /\ InitAlerts /\ InitEvalIdle /\ InitDiscIdle /\ InitServicesIdle

NextMulti ==
  \/ FetchMultipleTokens
  \/ BatchSettles

SpecMulti == InitMulti /\ [][NextMulti]_vars

\* the concatenation of a sequence of sequences
RECURSIVE Flatten(_)
Flatten(ss) == IF ss = <<>> THEN <<>> ELSE Head(ss) \o Flatten(Tail(ss))

\* C30: fetchMultipleTokens splits N token addresses into consecutive chunks
\* of at most 30 that together cover every address exactly once in input
\* order, issues one request per chunk sequentially (never two chunk requests
\* in flight at once), and returns the concatenation of the chunk results in
\* chunk order; for N = 0 it issues no request.
C30_ChunkedSequentialFetch ==
  /\ Flatten(multi.batches) = multi.tokenAddresses
  /\ \A b \in 1..Len(multi.batches) :
       Len(multi.batches[b]) \in 1..TokensPerRequest
  /\ Len(multi.requests) <= Len(multi.batches)
  /\ \A j \in 1..Len(multi.requests) : multi.requests[j] = multi.batches[j]
  /\ multi.inFlight <= 1
  /\ multi.pc = "done" =>
       /\ Len(multi.requests) = Len(multi.batches)
       /\ multi.inFlight = 0
       /\ multi.result = Flatten(multi.responses)
       /\ multi.tokenAddresses = <<>> => (multi.requests = <<>> /\ multi.result = <<>>)

\* 61 addresses went out as requests of 30, 30 and 1; the second batch failed
\* and the result is the pairs of the first batch followed by the last one's
C30_Witness ==
  /\ multi.pc = "done"
  /\ Len(multi.tokenAddresses) = 61
  /\ Len(multi.requests) = 3
  /\ Len(multi.requests[1]) = 30 /\ Len(multi.requests[2]) = 30
  /\ multi.requests[3] = <<61>>
  /\ Len(multi.responses[1]) = 30
  /\ multi.responses[2] = <<>>
  /\ Len(multi.result) = 31
  /\ multi.result[31].tokenAddress = 61


\* ---------------------------------------------------------------------------
\* C31: every pair in the output of fetchBasePairs belongs to the tracked
\* chain (chainId = 'base'), whichever of the four strategies contributed it
\* and whatever chain ids the upstream responses carry.
C31_OutputOnBase ==
  \A i \in 1..Len(disc.allPairs) : IsBase(disc.allPairs[i])

\* ---------------------------------------------------------------------------
\* the rules of the rejection pipeline, each stated on its own
RulesPassed(pair, t) ==
  /\ pair.name # "" /\ pair.symbol # ""
  /\ ToUpperCase(pair.symbol) \notin BLOCKED_SYMBOLS
  /\ ~BlockedName(pair.name)
  /\ pair.pairCreatedAt # <<>> /\ pair.pairCreatedAt[1] # 0
  /\ t - pair.pairCreatedAt[1] >= MinPairAgeMinutes
  /\ t - pair.pairCreatedAt[1] <= 7 * 24 * Hour
  /\ (IF pair.liquidityUsd = <<>> THEN 0 ELSE pair.liquidityUsd[1]) >= MinLiquidityUsd
  /\ (IF pair.volumeH24 = <<>> THEN 0 ELSE pair.volumeH24[1]) >= MinVolumeUsd
  /\ (IF pair.marketCap # <<>> /\ pair.marketCap[1] # 0 THEN pair.marketCap[1]
      ELSE IF pair.fdv # <<>> THEN pair.fdv[1] ELSE 0) <= 50000000

C33_OrderedLimit ==
  query.kind = "getLaunches" /\ query.at = now =>
    LET key(r) == CASE query.sortBy = "volume" -> r.volume24h
                    [] query.sortBy = "mcap" -> r.marketCap
                    [] query.sortBy = "age" -> r.pairCreatedAt
        n == Len(query.result)
        recent == {r \in RowsIn(launches) :
                     r.pairCreatedAt >= query.at - query.timeframeHours * Hour}
    IN /\ n <= query.limit
       /\ n = query.limit \/ n = Cardinality(recent)
       /\ \A j, k \in 1..n : j < k =>
            /\ key(query.result[j]) >= key(query.result[k])
            /\ key(query.result[j]) = 0 => key(query.result[k]) = 0
       /\ \A r \in recent \ RowsIn(query.result) :
            \A k \in 1..n : key(r) <= key(query.result[k])

\* of three launches of the last 24 hours, getLaunches(24, 'mcap', 2)
\* returned the two with a market cap, larger first, and left out the one
\* without
C33_Witness ==
  /\ query.kind = "getLaunches" /\ query.at = now
  /\ query.timeframeHours = 24 /\ query.sortBy = "mcap" /\ query.limit = 2
  /\ Cardinality({r \in RowsIn(launches) : r.pairCreatedAt >= now - 24 * Hour}) = 3
  /\ Len(query.result) = 2
  /\ query.result[1].pairAddress = "0xq2" /\ query.result[2].pairAddress = "0xq3"
  /\ \E r \in RowsIn(launches) : r.pairAddress = "0xq1" /\ r.marketCap = 0

\* ---------------------------------------------------------------------------
\* C34: getTrendingLaunches(limit) returns at most limit launches, each
\* created within the last 24 hours with volume24h > 0 and liquidityUsd > 0,
\* in descending order of volume24h * |priceChange24h + 1| (a launch that
\* came without a price change has 0); it returns limit launches when that
\* many are eligible, and no eligible launch left out has a higher score than
\* a launch returned.
C34_TrendingOrder ==
  query.kind = "getTrendingLaunches" /\ query.at = now =>
    LET score(r) == IF r.priceChange24h + 1 < 0
                    THEN r.volume24h * (0 - (r.priceChange24h + 1))
                    ELSE r.volume24h * (r.priceChange24h + 1)
        n == Len(query.result)
        eligible == {r \in RowsIn(launches) :
                       /\ r.pairCreatedAt >= query.at - 24 * Hour
                       /\ r.volume24h > 0
                       /\ r.liquidityUsd > 0}
    IN /\ n <= query.limit
       /\ n = query.limit \/ n = Cardinality(eligible)
       /\ RowsIn(query.result) \subseteq eligible
       /\ \A j, k \in 1..n : j < k => score(query.result[j]) >= score(query.result[k])
       /\ \A r \in eligible \ RowsIn(query.result) :
            \A k \in 1..n : score(r) <= score(query.result[k])

\* three launches are eligible; getTrendingLaunches(2) returned the launch
\* scoring 20 * 99 and then the one scoring 30 * 16, and left out the launch
\* without a price change, scoring 10 * 1, and the launch older than 24 hours
C34_Witness ==
  /\ query.kind = "getTrendingLaunches" /\ query.at = now
  /\ query.limit = 2
  /\ Len(launches) = 4
  /\ Len(query.result) = 2
  /\ query.result[1].pairAddress = "0xq3" /\ query.result[2].pairAddress = "0xq2"
  /\ \E r \in RowsIn(launches) :
       /\ r.pairAddress = "0xq1" /\ r.priceChange24h = 0
       /\ r.pairCreatedAt >= now - 24 * Hour

(***************************************************************************)
(* The command handlers next to the poll tick and the alert-engine tick:   *)
(* who writes which table.  A handler is one step: its store calls are     *)
(* synchronous and what it awaits in between (Discord, DexScreener) only   *)
(* shapes the reply.                                                       *)
(***************************************************************************)
\* message.author.id of the members who send commands
Authors == {"u1", "u2"}

\* INSERT INTO watchlist (user_id, token_address, added_at); a row that is
\* there already violates UNIQUE(user_id, token_address) and nothing changes
AddToWatchlist(W, userId, tokenAddress) ==
  W \cup {[userId |-> userId, tokenAddress |-> ToLowerCase(tokenAddress)]}

\* DELETE FROM watchlist WHERE user_id = ? AND token_address = ?
RemoveFromWatchlist(W, userId, tokenAddress) ==
  {e \in W : ~(e.userId = userId /\ e.tokenAddress = ToLowerCase(tokenAddress))}

\* SELECT ... FROM alerts WHERE user_id = ?
GetUserAlerts(A, userId) == SortById({a \in A : a.userId = userId})

\* the alert id arguments of !alert delete
AlertIdSamples == {"1", "2x", "x"}

AlertIdText(alertIdStr) ==
  CASE alertIdStr = "1" -> <<"1">>
    [] alertIdStr = "2x" -> <<"2", "x">>
    [] alertIdStr = "x" -> <<"x">>

\* parseInt(text, 10) on a text without sign or leading blank: the value of
\* its leading digits, <<>> for NaN when it has none
ParseInt(text) ==
  LET ks == {k \in 1..Len(text) : \A i \in 1..k : text[i] \in Digits}
  IN IF ks = {} THEN <<>>
     ELSE <<DigitsValue(SubSeq(text, 1, CHOOSE k \in ks : \A j \in ks : j <= k))>>

\* !launches <timeframe> [sort]: store.getLaunches(timeframeHours, sortBy, 15)
HandleLaunches ==
  /\ \E timeframeHours \in {24}, sortBy \in {"volume", "mcap"} :
       \E result \in GetLaunches(launches, timeframeHours, sortBy, 15, now) :
         cmd' = [CmdIdle EXCEPT !.kind = "launches",
                                !.reply = "launches", !.result = result]
  /\ UNCHANGED <<alerts, nextAlertId>>
  /\ CmdUnchanged

\* !trending: store.getTrendingLaunches(10)
HandleTrending ==
  /\ \E result \in GetTrendingLaunches(launches, 10, now) :
       cmd' = [CmdIdle EXCEPT !.kind = "trending",
                              !.reply = "trending", !.result = result]
  /\ UNCHANGED <<alerts, nextAlertId>>
  /\ CmdUnchanged

\* the reply of !info: the stored launch, or else what fetchTokenPairs found
\* (fetched is <<>> when it found nothing or threw), converted by pairToLaunch
InfoReply(T, address, fetched) ==
  IF ~IsValidAddress(address) THEN [reply |-> "invalidAddress", result |-> <<>>]
  ELSE LET launch == GetLaunchByToken(T, ToLowerCase(address))
       IN IF launch # <<>> THEN [reply |-> "info", result |-> launch]
          ELSE IF fetched # <<>> THEN [reply |-> "info", result |-> fetched]
          ELSE [reply |-> "notFound", result |-> <<>>]

\* what DexScreener may answer to fetchTokenPairs during !info
InfoFetched(t) == {<<>>, <<MkLaunch("0xp2", 2, 1, t)>>}

\* mutant of handleInfo: the launch fetched for the reply is stored as well
HandleInfo_stored ==
  /\ \E address \in {"0xA", "0xG"}, fetched \in InfoFetched(now) :
       LET r == InfoReply(launches, address, fetched)
       IN /\ cmd' = [CmdIdle EXCEPT !.kind = "info", !.address = address,
                                    !.reply = r.reply, !.result = r.result]
          /\ launches' = IF r.result = fetched THEN UpsertLaunches(launches, fetched)
                         ELSE launches
  /\ UNCHANGED <<now, lastOp, alerts, nextAlertId, watchlist, checkInterval, timers,
                 nextTimer, runs, sent, matched, lastDelivery, evalIn, evalOut, disc,
                 gate, retry, filt, query, poller, check, tick, multi>>

\* !info <contract>: handleInfo
HandleInfo ==
  /\ \E address \in {"0xA", "0xG"}, fetched \in InfoFetched(now) :
       LET r == InfoReply(launches, address, fetched)
       IN cmd' = [CmdIdle EXCEPT !.kind = "info", !.address = address,
                                 !.reply = r.reply, !.result = r.result]
  /\ UNCHANGED <<alerts, nextAlertId>>
  /\ CmdUnchanged

\* !track, !track <contract>, !track remove <contract>: handleTrack
HandleTrack ==
  /\ \E u \in Users, sub \in {"list", "add", "remove"}, address \in {"0xA", "0xG"} :
       LET asked == [CmdIdle EXCEPT !.kind = "track", !.userId = u, !.address = address]
           entry == [userId |-> u, tokenAddress |-> ToLowerCase(address)]
       IN IF sub = "list"
          THEN /\ cmd' = [CmdIdle EXCEPT !.kind = "track", !.userId = u,
                                         !.reply = "watchlist"]
               /\ UNCHANGED watchlist
          ELSE IF ~IsValidAddress(address)
          THEN /\ cmd' = [asked EXCEPT !.reply = "invalidAddress"]
               /\ UNCHANGED watchlist
          ELSE IF sub = "add"
          THEN /\ watchlist' = AddToWatchlist(watchlist, u, ToLowerCase(address))
               /\ cmd' = [asked EXCEPT !.reply = IF entry \in watchlist THEN "exists"
                                                 ELSE "added"]
          ELSE /\ watchlist' = RemoveFromWatchlist(watchlist, u, address)
               /\ cmd' = [asked EXCEPT !.reply = IF entry \in watchlist THEN "removed"
                                                 ELSE "notInWatchlist"]
  /\ UNCHANGED <<now, launches, lastOp, alerts, nextAlertId, checkInterval, timers,
                 nextTimer, runs, sent, matched, lastDelivery, evalIn, evalOut, disc,
                 gate, retry, filt, query, poller, check, tick, multi>>

\* !alert and !alert list: showAlerts
ShowAlerts ==
  /\ \E u \in Users :
       cmd' = [CmdIdle EXCEPT !.kind = "list", !.userId = u, !.reply = "alerts",
                              !.result = GetUserAlerts(alerts, u)]
  /\ UNCHANGED <<alerts, nextAlertId>>
  /\ CmdUnchanged

\* !alert delete <alert_id>: deleteAlert(message, args[1], store)
DeleteAlertCommand ==
  /\ \E u \in Authors, alertIdStr \in AlertIdSamples :
       LET alertId == ParseInt(AlertIdText(alertIdStr))
           asked == [CmdIdle EXCEPT !.kind = "delete", !.userId = u,
                                    !.address = alertIdStr]
       IN IF alertId = <<>>
          THEN /\ cmd' = [asked EXCEPT !.reply = "invalidId"]
               /\ UNCHANGED alerts
          ELSE LET after == DeleteAlert(alerts, alertId[1], u)
                   deleted == Cardinality(alerts) - Cardinality(after) > 0
               IN /\ alerts' = after
                  /\ cmd' = [asked EXCEPT !.alertId = alertId[1],
                                          !.reply = IF deleted THEN "deleted"
                                                    ELSE "notFound"]
  /\ UNCHANGED nextAlertId
  /\ CmdUnchanged

\* !alert <contract> <condition>, with a condition that parses and one that
\* does not
BotAlertCommand ==
  /\ nextAlertId <= MaxAlerts
  /\ CreateAlertFrom({"0xA"}, {"mcap<1000", "price=1"})

\* the bot after main() has opened the database: no poll and no alert check
\* has run yet
InitBot == InitStore /\ InitAlerts /\ InitEvalIdle /\ InitDiscIdle /\ InitServicesIdle

NextBot ==
  \/ EnginePoll
  \/ CheckBegin
  \/ CheckDeliverySettles
  \/ HandleLaunches
  \/ HandleTrending
  \/ HandleInfo
  \/ HandleTrack
  \/ ShowAlerts
  \/ BotAlertCommand
  \/ DeleteAlertCommand

SpecBot == InitBot /\ [][NextBot]_vars

CommandStep ==
  \/ HandleLaunches \/ HandleTrending \/ HandleInfo \/ HandleTrack
  \/ ShowAlerts \/ BotAlertCommand \/ DeleteAlertCommand

EngineStep == CheckBegin \/ CheckDeliverySettles

\* C35: the launches table changes only in a poll tick; an alert-engine tick
\* and every command handler (launches, trending, info, track, alert) leave
\* it unchanged; the triggered flag of an alert changes only in an
\* alert-engine tick; a poll tick leaves the alerts and watchlist tables
\* unchanged.
C35_SingleWriter ==
  [][/\ launches' # launches => (EnginePoll /\ ~EngineStep /\ ~CommandStep)
     /\ (\E a \in alerts, b \in alerts' : a.id = b.id /\ a.triggered # b.triggered)
          => EngineStep
     /\ (alerts' # alerts \/ watchlist' # watchlist) => ~EnginePoll]_vars

\* a poll tick has stored a launch, an alert created by command was
\* triggered by the engine, u1 tracks a token, and the last command was an
\* !info answered from DexScreener: the table still holds the launch of the
\* poll and no other
C35_Witness ==
  /\ Len(launches) = 1
  /\ \E a \in alerts : a.id = 1 /\ a.triggered
  /\ [userId |-> "u1", tokenAddress |-> "0xa"] \in watchlist
  /\ cmd.kind = "info" /\ cmd.reply = "info"
  /\ cmd.result # <<>> /\ cmd.result[1].pairAddress = "0xp2"

\* C37: !alert delete by a member removes the alert and answers that it was
\* deleted only when an alert with that id is owned by that member; when the
\* id does not exist or the alert belongs to someone else the command answers
\* that nothing was found and the alerts table is unchanged; no member's
\* delete removes another member's alert.
C37_OwnerOnlyDelete ==
  [][DeleteAlertCommand /\ cmd'.alertId # 0 =>
       LET owned == {a \in alerts : a.id = cmd'.alertId /\ a.userId = cmd'.userId}
       IN /\ owned # {} => (cmd'.reply = "deleted" /\ alerts' = alerts \ owned)
          /\ owned = {} => (cmd'.reply = "notFound" /\ alerts' = alerts)
          /\ \A a \in alerts : a.userId # cmd'.userId => a \in alerts']_vars

\* u2 asked to delete alert 1, which is u1's: the alert is still there
C37_Witness ==
  /\ cmd.kind = "delete" /\ cmd.userId = "u2" /\ cmd.alertId = 1
  /\ cmd.reply = "notFound"
  /\ \E a \in alerts : a.id = 1 /\ a.userId = "u1"

\* ---------------------------------------------------------------------------
\* C36: for any sequence of startChecking and stopChecking calls, from the
\* return of stopChecking until the next startChecking no interval timer of
\* the alert checker is scheduled, so no new checkAlerts tick can start; in
\* particular after two startChecking calls and one stopChecking.
C36_StopLeavesNoTimer == checkInterval = NoTimer => timers = {}

\* ---------------------------------------------------------------------------
\* the text has the character pair first, second somewhere
HasPair(text, first, second) ==
  \E i \in 1..(Len(text) - 1) : text[i] = first /\ text[i + 1] = second

\* C38: every alert created through the alert command has operator '>' or
\* '<': a condition written with '>=' is stored with '>', one written with
\* '<=' with '<', and a condition written with a bare '=' is rejected, so no
\* alert with operator '=' is created by the command.
C38_StrictOperatorsOnly ==
  /\ \A a \in alerts : a.operator \in {">", "<"}
  /\ cmd.kind = "alert" /\ cmd.reply = "created" =>
       LET text == ConditionText(cmd.condition)
           made == {a \in alerts : a.id = cmd.alertId}
       IN /\ HasPair(text, ">", "=") => \A a \in made : a.operator = ">"
          /\ HasPair(text, "<", "=") => \A a \in made : a.operator = "<"
  /\ cmd.kind = "alert" /\ cmd.condition # Null =>
       LET text == ConditionText(cmd.condition)
       IN (\E i \in 1..Len(text) : text[i] = "=" /\ (i = 1 \/ text[i - 1] \notin {">", "<"}))
            => cmd.reply # "created"

\* !alert 0xAAAA... vol>=50 created an alert, stored with operator '>'
C38_Witness ==
  /\ cmd.kind = "alert" /\ cmd.condition = "vol>=50" /\ cmd.reply = "created"
  /\ \E a \in alerts :
       /\ a.id = cmd.alertId
       /\ a.conditionType = "volume" /\ a.operator = ">" /\ a.threshold = 500

Triggered(id) == \E a \in alerts : a.id = id /\ a.triggered

\* the engine is running, the alert with this id is stored and, as long as it
\* is active, its token has a stored launch on which its condition holds
Eligible(id) ==
  /\ timers # {}
  /\ \E a \in alerts :
       /\ a.id = id
       /\ ~a.triggered =>
            LET launch == GetLaunchByToken(launches, a.tokenAddress)
            IN launch # <<>> /\ EvaluateAlert(a, launch[1])

\* C40: if the alert engine keeps running and an alert is never deleted and,
\* while active, always has a stored launch on which its condition holds,
\* then the alert is eventually marked triggered (timers fire again and again
\* and every notification attempt settles).
C40_EligibleAlertTriggers ==
  \A id \in AlertIds : ([]Eligible(id)) ~> Triggered(id)

\* the engine is running, the alert's launch is stored with a matching price,
\* the notification could not be delivered, and the alert is marked triggered
\* with no tick in flight
C40_Witness ==
  /\ checkInterval # NoTimer
  /\ Eligible(1) /\ Triggered(1)
  /\ Len(launches) = 1 /\ launches[1].priceUsd = 2
  /\ lastDelivery = [id |-> 1, outcome |-> "error"]
  /\ \A r \in RunIds : runs[r].pc = "idle"

====
